---------------------------- MODULE Spec2Model ----------------------------
(***************************************************************************)
(* A model of the MTS solver (src/MTS.cpp, src/Solver.cpp,                 *)
(* src/SystemSolver.cpp): a one-dimensional multi-variable HDG             *)
(* discretisation that serves a DAE integrator with a residual callback    *)
(* and a statically condensed linear solve.                                *)
(*                                                                         *)
(* Numbers are exact rationals <<n, d>> (d > 0, lowest terms) extended     *)
(* with the non-finite values of IEEE arithmetic: <<0, 0>> is NaN and      *)
(* <<1, 0>>, <<-1, 0>> are +Inf, -Inf.  Vectors and matrices are           *)
(* functions on 0..n-1, as the source indexes them.                        *)
(***************************************************************************)
EXTENDS Integers, Sequences, FiniteSets, TLC

(***************************************************************************)
(* Bounds of the model.                                                    *)
(***************************************************************************)
\* Largest number of channels, cells and polynomial degree of the layout
\* specification.
MaxVar == 3
MaxCells == 3
MaxDeg == 2

(***************************************************************************)
(* realtype arithmetic.                                                    *)
(***************************************************************************)
Abs(n) == IF n < 0 THEN -n ELSE n

Sign(n) == IF n < 0 THEN -1 ELSE IF n > 0 THEN 1 ELSE 0

RECURSIVE GCD(_, _)
GCD(a, b) == IF b = 0 THEN a ELSE GCD(b, a % b)

\* The value n/d; d = 0 gives NaN (n = 0) or a signed infinity.
Norm(n, d) ==
  IF d = 0 THEN <<Sign(n), 0>>
  ELSE LET Reduced(g) ==
             IF d < 0 THEN <<(-n) \div g, (-d) \div g>> ELSE <<n \div g, d \div g>>
       IN Reduced(GCD(Abs(n), Abs(d)))

R(n) == <<n, 1>>

Zero == <<0, 1>>

One == <<1, 1>>

NaN == <<0, 0>>

IsFinite(a) == a[2] # 0

RNeg(a) == <<-a[1], a[2]>>

RAdd(a, b) ==
  IF a[2] # 0 /\ b[2] # 0 THEN Norm(a[1] * b[2] + b[1] * a[2], a[2] * b[2])
  ELSE IF a[2] = 0 /\ b[2] = 0 THEN (IF a = b THEN a ELSE NaN)
  ELSE IF a[2] = 0 THEN a ELSE b

RSub(a, b) == RAdd(a, RNeg(b))

RMul(a, b) ==
  IF a[2] # 0 /\ b[2] # 0 THEN Norm(a[1] * b[1], a[2] * b[2])
  ELSE <<Sign(a[1]) * Sign(b[1]), 0>>

RDiv(a, b) ==
  IF a[2] # 0 /\ b[2] # 0 THEN Norm(a[1] * b[2], a[2] * b[1])
  ELSE IF a[2] = 0 /\ b[2] = 0 THEN NaN
  ELSE IF a[2] = 0 THEN <<a[1] * (IF b[1] < 0 THEN -1 ELSE 1), 0>>
  ELSE Zero

RAbs(a) == <<Abs(a[1]), a[2]>>

\* a > b on finite values
RGt(a, b) == a[1] * b[2] > b[1] * a[2]

\* A function value, evaluated once (a function written [x \in S |-> e] is
\* otherwise re-evaluated at each application).
Force(f) == IF f = f THEN f ELSE f

\* The value e, evaluated after the value x.
After(x, e) == CASE x = x -> e

(***************************************************************************)
(* Eigen vectors and matrices.                                             *)
(***************************************************************************)
VecZero(n) == [i \in 0..(n - 1) |-> Zero]

MatZero(r, c) == [i \in 0..(r - 1) |-> [j \in 0..(c - 1) |-> Zero]]

VecLen(v) == Cardinality(DOMAIN v)

RECURSIVE SumTo(_, _, _)
\* f[lo] + ... + f[hi]
SumTo(f, lo, hi) == IF lo > hi THEN Zero ELSE RAdd(f[lo], SumTo(f, lo + 1, hi))

\* m * v for an r x c matrix
MatVec(m, v, r, c) ==
  Force([i \in 0..(r - 1) |-> SumTo([j \in 0..(c - 1) |-> RMul(m[i][j], v[j])], 0, c - 1)])

\* a * b for an r x n matrix a and an n x c matrix b
MatMul(a, b, r, n, c) ==
  Force([i \in 0..(r - 1) |-> [j \in 0..(c - 1) |->
          SumTo([l \in 0..(n - 1) |-> RMul(a[i][l], b[l][j])], 0, n - 1)]])

Transpose(m, r, c) == Force([j \in 0..(c - 1) |-> [i \in 0..(r - 1) |-> m[i][j]]])

MatNeg(m) == Force([i \in DOMAIN m |-> [j \in DOMAIN m[i] |-> RNeg(m[i][j])]])

MatSub(a, b) == Force([i \in DOMAIN a |-> [j \in DOMAIN a[i] |-> RSub(a[i][j], b[i][j])]])

VecAdd(a, b) == Force([i \in DOMAIN a |-> RAdd(a[i], b[i])])

VecSub(a, b) == Force([i \in DOMAIN a |-> RSub(a[i], b[i])])

VecNeg(a) == Force([i \in DOMAIN a |-> RNeg(a[i])])

VecScale(s, a) == Force([i \in DOMAIN a |-> RMul(s, a[i])])

\* m.block(r0, c0, nr, nc)
Block(m, r0, c0, nr, nc) ==
  Force([i \in 0..(nr - 1) |-> [j \in 0..(nc - 1) |-> m[r0 + i][c0 + j]]])

\* v.block(r0, 0, nr, 1)
Seg(v, r0, nr) == Force([i \in 0..(nr - 1) |-> v[r0 + i]])

\* v.block(r0, 0, nr, 1) = b
SetSeg(v, r0, nr, b) ==
  Force([i \in DOMAIN v |-> IF i >= r0 /\ i < r0 + nr THEN b[i - r0] ELSE v[i]])

AllFinite(v) == \A i \in DOMAIN v : IsFinite(v[i])


(***************************************************************************)
(* State.                                                                  *)
(***************************************************************************)
VARIABLES
  pc,            \* position of main / runSolver
  err,           \* the exception that ended the run, or "none"
  cfg,           \* the [configuration] table of the input file
  k,             \* SystemSolver::k, polynomial degree
  nCells,        \* SystemSolver::nCells
  nVar,          \* SystemSolver::nVar
  grid,          \* SystemSolver::grid: the cells, in order
  sig, q, u,     \* SystemSolver::sig, q, u: DGApprox coefficient views
  lambda,        \* SystemSolver::lambda: view of the trace block
  Y, dYdt,       \* the integrator's state and derivative vectors
  idVals,        \* the id mask handed to IDASetId
  tau, c_fn,     \* SystemSolver::tau, c_fn: the caller's coefficient functions
  BCs,           \* SystemSolver::BCs
  initialised,   \* SystemSolver::initialised
  A_cellwise, B_cellwise, D_cellwise, C_cellwise, E_cellwise, G_cellwise,
  H_cellwise, CG_cellwise, RF_cellwise, XMats, MBlocks, CEBlocks,
  K_global, L_global,
  H_global,      \* the matrix SystemSolver::H_global factorises
  dsigdt, dqdt, dudt, dlamdt,   \* views of the derivative vector
  alpha,         \* SystemSolver::alpha
  total_steps,   \* SystemSolver::total_steps
  resNorm,       \* SystemSolver::resNorm
  call,          \* the integrator callback that ran last, with its arguments
  resval,        \* the residual vector of the last residual call
  resRet,        \* what the last residual call returned
  delY,          \* the update vector of the last linear solve
  rs,            \* the locals of runSolver
  files,         \* the files written, by name
  evalRet        \* the last EvalCoeffs call made from outside: arguments and value

dimVars == <<k, nCells, nVar, grid>>

fieldVars == <<sig, q, u, lambda>>

vecVars == <<Y, dYdt, idVals>>

coefVars == <<tau, c_fn>>

cellVars ==
  <<A_cellwise, B_cellwise, D_cellwise, C_cellwise, E_cellwise, G_cellwise,
    H_cellwise, CG_cellwise, XMats, MBlocks, CEBlocks, H_global>>

bcVars == <<RF_cellwise, L_global>>

derivVars == <<dsigdt, dqdt, dudt, dlamdt>>

cbVars == <<alpha, total_steps, resNorm, call, resval, resRet, delY>>

solverVars ==
  <<coefVars, BCs, initialised, cellVars, bcVars, K_global, derivVars, cbVars, rs, files>>

vars == <<pc, err, cfg, dimVars, fieldVars, vecVars, solverVars, evalRet>>

\* A value a std::optional or a pointer does not hold yet.
None == "none"

\* No EvalCoeffs call made yet.
NoEval == [field |-> "none", x |-> <<0, 1>>, var |-> 0, value |-> <<0, 1>>]

(***************************************************************************)
(* The layout of the integrator's vectors.                                 *)
(***************************************************************************)
\* A VectorWrapper: len entries of buffer buf starting at off.
View(buf, off, len) == [buf |-> buf, off |-> off, len |-> len]

ViewIndices(w) == w.off..(w.off + w.len - 1)

\* Length of the vectors runSolver allocates.
StateLength == nVar * 3 * nCells * (k + 1) + nVar * (nCells + 1)

SigOffset_swapped(var, i) == i * (k + 1) + var * 3 * nCells * (k + 1)

\* Offsets of the coefficient blocks of variable var on cell i.
SigOffset(var, i) == var * (k + 1) + i * 3 * nVar * (k + 1)

QOffset(var, i) == nVar * (k + 1) + var * (k + 1) + i * 3 * nVar * (k + 1)

UOffset(var, i) == 2 * nVar * (k + 1) + var * (k + 1) + i * 3 * nVar * (k + 1)

LamOffset == nVar * nCells * (3 * k + 3)

LamLength == nVar * (nCells + 1)

\* Index of the trace value of variable var on face j within the trace block.
LamIndex(var, j) == var * (nCells + 1) + j

\* The views one call pushes onto a DGApprox's coeffs: one vector of
\* per-cell views for each variable.
SigViews(buf) ==
  [v \in 1..nVar |-> [i \in 1..nCells |-> View(buf, SigOffset(v - 1, i - 1), k + 1)]]

QViews(buf) ==
  [v \in 1..nVar |-> [i \in 1..nCells |-> View(buf, QOffset(v - 1, i - 1), k + 1)]]

UViews(buf) ==
  [v \in 1..nVar |-> [i \in 1..nCells |-> View(buf, UOffset(v - 1, i - 1), k + 1)]]

LamView(buf) == View(buf, LamOffset, LamLength)

IdMaskIndex_q(i, j) == i * 3 * nVar * (k + 1) + nVar * (k + 1) + j

\* Slot the id-mask loop of runSolver sets for cell i and counter j.
IdMaskIndex(i, j) == i * 3 * nVar * (k + 1) + 2 * nVar * (k + 1) + j

\* The id mask: zero, then 1.0 at every slot of the loop.
IdMask ==
  LET ones == {IdMaskIndex(i, j) : i \in 0..(nCells - 1), j \in 0..(nVar * (k + 1) - 1)}
  IN [x \in 0..(StateLength - 1) |-> IF x \in ones THEN One ELSE Zero]

\* The members of a solver nothing has assembled or called yet.
Unassembled ==
  /\ BCs = None
  /\ initialised = FALSE
  /\ A_cellwise = <<>> /\ B_cellwise = <<>> /\ D_cellwise = <<>>
  /\ C_cellwise = <<>> /\ E_cellwise = <<>> /\ G_cellwise = <<>>
  /\ H_cellwise = <<>> /\ CG_cellwise = <<>> /\ RF_cellwise = <<>>
  /\ XMats = <<>> /\ MBlocks = <<>> /\ CEBlocks = <<>>
  /\ K_global = <<>> /\ L_global = <<>> /\ H_global = <<>>
  /\ dsigdt = <<>> /\ dqdt = <<>> /\ dudt = <<>> /\ dlamdt = None
  /\ alpha = Zero
  /\ total_steps = 0
  /\ resNorm = Zero
  /\ call = [name |-> "none", t |-> Zero, y |-> <<>>, yp |-> <<>>, g |-> <<>>]
  /\ resval = <<>>
  /\ resRet = None
  /\ delY = <<>>
  /\ rs = None
  /\ files = <<>>

(***************************************************************************)
(* The layout specification: the vectors runSolver allocates, the views    *)
(* mapDGtoSundials binds and the id mask, for every size within the        *)
(* bounds.                                                                 *)
(***************************************************************************)
LayoutInit ==
  /\ pc = "constructed"
  /\ err = None
  /\ cfg = None
  /\ nVar \in 1..MaxVar
  /\ nCells \in 1..MaxCells
  /\ k \in 0..MaxDeg
  /\ grid = <<>>
  /\ sig = <<>> /\ q = <<>> /\ u = <<>>
  /\ lambda = None
  /\ Y = <<>> /\ dYdt = <<>> /\ idVals = <<>>
  /\ tau = None /\ c_fn = None
  /\ Unassembled
  /\ evalRet = NoEval

\* runSolver: N_VNew_Serial, N_VClone, setZero
AllocateVectors ==
  /\ pc = "constructed"
  /\ Y' = VecZero(StateLength)
  /\ dYdt' = VecZero(StateLength)
  /\ pc' = "allocated"
  /\ UNCHANGED <<err, cfg, evalRet, dimVars, fieldVars, idVals, solverVars>>

\* mapDGtoSundials(sig, q, u, lambda, Y)
MapDGtoSundials ==
  /\ pc = "allocated"
  /\ sig' = sig \o SigViews("Y")
  /\ q' = q \o QViews("Y")
  /\ u' = u \o UViews("Y")
  /\ lambda' = LamView("Y")
  /\ pc' = "mapped"
  /\ UNCHANGED <<err, cfg, evalRet, dimVars, vecVars, solverVars>>

\* runSolver: the id mask
SetIdMask ==
  /\ pc = "mapped"
  /\ idVals' = IdMask
  /\ pc' = "idset"
  /\ UNCHANGED <<err, cfg, evalRet, dimVars, fieldVars, Y, dYdt, solverVars>>

LayoutNext == AllocateVectors \/ MapDGtoSundials \/ SetIdMask

SpecLayout == LayoutInit /\ [][LayoutNext]_vars

(***************************************************************************)
(* Claims about the layout.                                                *)
(***************************************************************************)
\* All coefficient views and the trace view bound on the state vector.
BoundViews ==
  {sig[v][i] : v \in 1..nVar, i \in 1..nCells}
    \cup {q[v][i] : v \in 1..nVar, i \in 1..nCells}
    \cup {u[v][i] : v \in 1..nVar, i \in 1..nCells}
    \cup {lambda}

Mapped == pc \in {"mapped", "idset"}

\* C1: for every variable v, cell i and block s (sigma, q, u) the view
\* bound by mapDGtoSundials starts at i*3N(k+1) + s*N(k+1) + v*(k+1) and has
\* length k+1; the trace view starts at 3N(k+1)Nc, has length N(Nc+1) and
\* is indexed v*(Nc+1)+j; the views are pairwise disjoint and together
\* cover every index of the allocated vector of length
\* N(3(k+1)Nc + (Nc+1)).
C1_BlockLayout ==
  Mapped =>
    /\ \A v \in 0..(nVar - 1), i \in 0..(nCells - 1) :
         /\ sig[v + 1][i + 1] = View("Y", i * 3 * nVar * (k + 1) + 0 * nVar * (k + 1) + v * (k + 1), k + 1)
         /\ q[v + 1][i + 1] = View("Y", i * 3 * nVar * (k + 1) + 1 * nVar * (k + 1) + v * (k + 1), k + 1)
         /\ u[v + 1][i + 1] = View("Y", i * 3 * nVar * (k + 1) + 2 * nVar * (k + 1) + v * (k + 1), k + 1)
    /\ lambda = View("Y", 3 * nVar * (k + 1) * nCells, nVar * (nCells + 1))
    /\ \A v \in 0..(nVar - 1), j \in 0..nCells : LamIndex(v, j) \in 0..(lambda.len - 1)
    /\ \A v1, v2 \in 0..(nVar - 1), j1, j2 \in 0..nCells :
         LamIndex(v1, j1) = LamIndex(v2, j2) => v1 = v2 /\ j1 = j2
    /\ \A a, b \in BoundViews : a # b => ViewIndices(a) \cap ViewIndices(b) = {}
    /\ Cardinality(BoundViews) = 3 * nVar * nCells + 1
    /\ UNION {ViewIndices(w) : w \in BoundViews} = DOMAIN Y
    /\ DOMAIN Y = 0..(nVar * (3 * (k + 1) * nCells + (nCells + 1)) - 1)

\* Witness of C1: several variables, cells and coefficients are mapped.
C1_Witness == Mapped /\ nVar = 2 /\ nCells = 2 /\ k = 1

\* C2: the id mask is 1 exactly at the u coefficient slots and 0 at every
\* sigma, q and trace slot, so N*Nc*(k+1) entries are differential.
C2_IdMask ==
  pc = "idset" =>
    LET uSlots == UNION {ViewIndices(u[v][i]) : v \in 1..nVar, i \in 1..nCells}
    IN /\ DOMAIN idVals = DOMAIN Y
       /\ \A x \in DOMAIN idVals : idVals[x] = (IF x \in uSlots THEN One ELSE Zero)
       /\ \A w \in BoundViews \ {u[v][i] : v \in 1..nVar, i \in 1..nCells} :
            \A x \in ViewIndices(w) : idVals[x] = Zero
       /\ Cardinality({x \in DOMAIN idVals : idVals[x] = One}) = nVar * nCells * (k + 1)

\* Witness of C2: a mask over several variables and cells has been set.
C2_Witness == pc = "idset" /\ nVar = 2 /\ nCells = 2 /\ k = 1 /\ idVals[UOffset(1, 1)] = One

(***************************************************************************)
(* The input file: the [configuration] table.                              *)
(***************************************************************************)
Keys ==
  {"Polynomial_degree", "Grid_size", "Number_of_channels", "Initial_condition",
   "Diffusion_case", "Reaction_case", "Lower_boundary", "Upper_boundary",
   "LB_Type", "UB_Type", "delta_t", "t_final", "Relative_tolerance",
   "Absolute_tolerance"}

\* toml values: an integer, a floating-point number, a string, or no entry.
IVal(n) == [kind |-> "integer", i |-> n, r |-> Zero, s |-> ""]

FVal(x) == [kind |-> "floating", i |-> 0, r |-> x, s |-> ""]

SVal(str) == [kind |-> "string", i |-> 0, r |-> Zero, s |-> str]

AbsentVal == [kind |-> "absent", i |-> 0, r |-> Zero, s |-> ""]

\* config.count(key)
Count(key) == IF cfg[key].kind = "absent" THEN 0 ELSE 1

\* The first exception of a sequence of steps, "none" if no step throws.
RECURSIVE FirstError(_)
FirstError(es) ==
  IF es = <<>> THEN None
  ELSE IF Head(es) # None THEN Head(es) ELSE FirstError(Tail(es))

\* toml::find(config, key) throws std::out_of_range when the key is absent;
\* the count test after it then never fires.
IntegerKeyError(key) ==
  IF Count(key) = 0 THEN "out_of_range"
  ELSE IF cfg[key].kind # "integer" THEN "invalid_argument"
  ELSE None

\* config.count(key) != 1 throws; as_string() of another type throws
\* toml::type_error.
StringKeyError(key) ==
  IF Count(key) # 1 THEN "invalid_argument"
  ELSE IF cfg[key].kind # "string" THEN "type_error"
  ELSE None

\* toml::find, then as_floating() in both the integer and the floating
\* branch: as_floating() of an integer throws toml::type_error.
RealKeyError(key) ==
  IF Count(key) = 0 THEN "out_of_range"
  ELSE IF cfg[key].kind = "integer" THEN "type_error"
  ELSE IF cfg[key].kind = "floating" THEN None
  ELSE "invalid_argument"

BoundaryTypeError(key) ==
  IF StringKeyError(key) # None THEN StringKeyError(key)
  ELSE IF cfg[key].s \in {"Dirichlet", "VonNeumann"} THEN None
  ELSE "invalid_argument"

\* The exception the constructor ends with, "none" if it completes.
ConstructorError ==
  FirstError(<<IntegerKeyError("Polynomial_degree"),
               IntegerKeyError("Grid_size"),
               IntegerKeyError("Number_of_channels"),
               StringKeyError("Initial_condition"),
               StringKeyError("Diffusion_case"),
               StringKeyError("Reaction_case"),
               RealKeyError("Lower_boundary"),
               RealKeyError("Upper_boundary"),
               BoundaryTypeError("LB_Type"),
               BoundaryTypeError("UB_Type")>>)

\* BCs->g_D and BCs->g_N: the functions the constructor installs are zero;
\* a caller's own may grow with time.
g_D(x, t) == IF BCs.g = "ramp" THEN RAdd(R(2), t) ELSE Zero

g_N(x, t) == IF BCs.g = "ramp" THEN RAdd(One, t) ELSE Zero

\* Grid(lBound, uBound, nCells): n cells of equal width
GridCells(lBound, uBound, n) ==
  LET width == RDiv(RSub(uBound, lBound), R(n))
  IN [i \in 1..n |-> [x_l |-> RAdd(lBound, RMul(R(i - 1), width)),
                      x_u |-> RAdd(lBound, RMul(R(i), width))]]

\* SystemSolver::SystemSolver(std::string const& inputFile)
Construct ==
  /\ pc = "main"
  /\ IF ConstructorError # None
     THEN /\ pc' = "aborted"
          /\ err' = ConstructorError
          /\ UNCHANGED <<dimVars, BCs>>
     ELSE /\ k' = cfg["Polynomial_degree"].i
          /\ nCells' = cfg["Grid_size"].i
          /\ nVar' = cfg["Number_of_channels"].i
          /\ grid' = GridCells(cfg["Lower_boundary"].r, cfg["Upper_boundary"].r,
                               cfg["Grid_size"].i)
          /\ BCs' = [LowerBound |-> cfg["Lower_boundary"].r,
                     UpperBound |-> cfg["Upper_boundary"].r,
                     isLBoundDirichlet |-> cfg["LB_Type"].s = "Dirichlet",
                     isUBoundDirichlet |-> cfg["UB_Type"].s = "Dirichlet",
                     g |-> "zero"]
          /\ pc' = "runSolver"
          /\ UNCHANGED err
  /\ UNCHANGED <<cfg, evalRet, fieldVars, vecVars, coefVars, initialised, cellVars,
                 bcVars, K_global, derivVars, cbVars, rs, files>>

\* floor of a finite value
Floor(a) == a[1] \div a[2]

\* a <= b on finite values
RLe(a, b) == ~RGt(a, b)

RLt(a, b) == RGt(b, a)

\* The tolerance runSolver uses for a key that passed the reading.
Tolerance(key) == IF Count(key) = 0 THEN <<1, 100000>> ELSE cfg[key].r

\* The exception the reading of runSolver ends with.
ReadFileError ==
  FirstError(<<RealKeyError("delta_t"),
               RealKeyError("t_final"),
               RealKeyError("Relative_tolerance"),
               RealKeyError("Absolute_tolerance")>>)

ReadFileLocals_allSteps ==
  LET deltatPrint == cfg["delta_t"].r
      delta_t == RMul(deltatPrint, <<1, 2>>)
      tFinal == cfg["t_final"].r
      totalSteps == RDiv(tFinal, delta_t)
      stepsPerPrint == Floor(totalSteps)
      short == RLt(tFinal, deltatPrint)
  IN [deltatPrint |-> deltatPrint,
      delta_t |-> delta_t,
      t0 |-> Zero,
      t1 |-> IF short THEN tFinal ELSE delta_t,
      tFinal |-> tFinal,
      totalSteps |-> IF short THEN One ELSE totalSteps,
      stepsPerPrint |-> IF short THEN 1 ELSE stepsPerPrint,
      rtol |-> Tolerance("Relative_tolerance"),
      atol |-> Tolerance("Absolute_tolerance"),
      tout |-> Zero,
      iout |-> 0]

\* The locals of runSolver after the reading.
ReadFileLocals ==
  LET deltatPrint == cfg["delta_t"].r
      delta_t == RMul(deltatPrint, <<1, 2>>)
      tFinal == cfg["t_final"].r
      totalSteps == RDiv(tFinal, delta_t)
      stepsPerPrint == Floor(RMul(totalSteps, RDiv(deltatPrint, tFinal)))
      short == RLt(tFinal, deltatPrint)
  IN [deltatPrint |-> deltatPrint,
      delta_t |-> delta_t,
      t0 |-> Zero,
      t1 |-> IF short THEN tFinal ELSE delta_t,
      tFinal |-> tFinal,
      totalSteps |-> IF short THEN One ELSE totalSteps,
      stepsPerPrint |-> IF short THEN 1 ELSE stepsPerPrint,
      rtol |-> Tolerance("Relative_tolerance"),
      atol |-> Tolerance("Absolute_tolerance"),
      tout |-> Zero,
      iout |-> 0]

\* runSolver: Read File
ReadFile ==
  /\ pc = "runSolver"
  /\ IF ReadFileError # None
     THEN /\ pc' = "aborted"
          /\ err' = ReadFileError
          /\ UNCHANGED rs
     ELSE /\ rs' = ReadFileLocals
          /\ pc' = "initialise"
          /\ UNCHANGED err
  /\ UNCHANGED <<cfg, evalRet, dimVars, fieldVars, vecVars, coefVars, BCs, initialised,
                 cellVars, bcVars, K_global, derivVars, cbVars, files>>

(***************************************************************************)
(* The grid and the Legendre basis.                                        *)
(***************************************************************************)
\* grid.gridCells[i]
Interval(i) == grid[i + 1]

\* Interval::contains
Contains(I, x) == RLe(I.x_l, x) /\ RLe(x, I.x_u)

\* The square root of a rational square.
SqrtR(a) == CHOOSE s \in {<<n, d>> : n \in 1..4, d \in 1..4} : RMul(s, s) = a

RECURSIVE LegendreP(_, _)
\* The Legendre polynomial of degree j at xi in [-1, 1].
LegendreP(j, xi) ==
  IF j = 0 THEN One
  ELSE IF j = 1 THEN xi
  ELSE RDiv(RSub(RMul(R(2 * j - 1), RMul(xi, LegendreP(j - 1, xi))),
                 RMul(R(j - 1), LegendreP(j - 2, xi))), R(j))

\* The factor that gives basis function j unit norm on I.
BasisNorm(I, j) == SqrtR(RDiv(R(2 * j + 1), RSub(I.x_u, I.x_l)))

\* Basis.phi(I, j)(x)
Phi(I, j, x) ==
  LET xi == RDiv(RSub(RSub(RMul(R(2), x), I.x_l), I.x_u), RSub(I.x_u, I.x_l))
  IN RMul(BasisNorm(I, j), LegendreP(j, xi))

\* MassMatrix(I, M, w) for a weight of constant value w: <phi_i, w phi_j>
MassMatrixW(I, w) ==
  Force([i \in 0..k |-> [j \in 0..k |->
    IF i = j
    THEN RMul(w, RMul(RMul(BasisNorm(I, i), BasisNorm(I, i)),
                      RDiv(RSub(I.x_u, I.x_l), R(2 * i + 1))))
    ELSE Zero]])

\* MassMatrix(I, M)
MassMatrix(I) == MassMatrixW(I, One)

\* DerivativeMatrix(I, M, w) for a weight of constant value w:
\* <w phi_i, phi_j'>
DerivativeMatrixW(I, w) ==
  Force([i \in 0..k |-> [j \in 0..k |->
    IF j > i /\ (j - i) % 2 = 1
    THEN RMul(w, RMul(RMul(BasisNorm(I, i), BasisNorm(I, j)), R(2)))
    ELSE Zero]])

\* DerivativeMatrix(I, M)
DerivativeMatrix(I) == DerivativeMatrixW(I, One)

\* CellProduct(I, f, phi_j) for a function f of constant value fval on I
CellProduct(I, fval, j) ==
  IF j = 0 THEN RMul(fval, RMul(BasisNorm(I, 0), RSub(I.x_u, I.x_l))) ELSE Zero

\* Basis.Evaluate(I, coefficients, x), the coefficients read through view w
\* of vector vec
Evaluate(I, w, vec, x) ==
  SumTo([j \in 0..(w.len - 1) |-> RMul(vec[w.off + j], Phi(I, j, x))], 0, w.len - 1)

\* The forcing function.
RHS(x) == Zero

(***************************************************************************)
(* The per-cell blocks of initialiseMatrices.                              *)
(***************************************************************************)
\* A matrix of nVar diagonal blocks b (r x c each); fill elsewhere.
BlockDiag(b, r, c, fill) ==
  Force([i \in 0..(nVar * r - 1) |-> [j \in 0..(nVar * c - 1) |->
    IF i \div r = j \div c THEN b[i % r][j % c] ELSE fill]])

\* The matrix of the blocks bl[bi][bj], each r x c, bi < nbr, bj < nbc.
BlockMatrix(bl, nbr, nbc, r, c) ==
  Force([i \in 0..(nbr * r - 1) |-> [j \in 0..(nbc * c - 1) |->
    bl[(i \div r) + 1][(j \div c) + 1][i % r][j % c]]])

IsLowerDirichlet(I) == I.x_l = BCs.LowerBound /\ BCs.isLBoundDirichlet

IsUpperDirichlet_lower(I) == I.x_u = BCs.UpperBound /\ BCs.isLBoundDirichlet

IsUpperDirichlet(I) == I.x_u = BCs.UpperBound /\ BCs.isUBoundDirichlet

Dvar(I) ==
  LET Penalised(Dc, lo, up) ==
        Force([i \in 0..k |-> [j \in 0..k |->
          RAdd(Dc[i][j],
               RAdd(RMul(tau, RMul(lo[j], lo[i])), RMul(tau, RMul(up[j], up[i]))))]])
  IN Penalised(Transpose(MatNeg(DerivativeMatrixW(I, c_fn)), k + 1, k + 1),
               Force([j \in 0..k |-> Phi(I, j, I.x_l)]),
               Force([j \in 0..k |-> Phi(I, j, I.x_u)]))

Cvar(I) ==
  Force([e \in 0..1 |-> [i \in 0..k |->
    IF e = 0
    THEN (IF IsLowerDirichlet(I) THEN Zero ELSE RNeg(Phi(I, i, I.x_l)))
    ELSE (IF IsUpperDirichlet(I) THEN Zero ELSE Phi(I, i, I.x_u))]])

Evar(I) ==
  Force([i \in 0..k |-> [e \in 0..1 |->
    IF e = 0
    THEN (IF IsLowerDirichlet(I) THEN Zero
          ELSE RMul(Phi(I, i, I.x_l), RSub(RNeg(c_fn), tau)))
    ELSE (IF IsUpperDirichlet(I) THEN Zero
          ELSE RMul(Phi(I, i, I.x_u), RSub(c_fn, tau)))]])

Gvar(I) ==
  Force([e \in 0..1 |-> [i \in 0..k |->
    IF e = 0
    THEN (IF IsLowerDirichlet(I) THEN Zero ELSE RMul(tau, Phi(I, i, I.x_l)))
    ELSE (IF IsUpperDirichlet(I) THEN Zero ELSE RMul(tau, Phi(I, i, I.x_u)))]])

Hvar_uncleared(I) ==
  Force([a \in 0..1 |-> [b \in 0..1 |->
    IF a # b THEN Zero
    ELSE IF a = 0
    THEN RSub(RNeg(c_fn), tau)
    ELSE RSub(c_fn, tau)]])

\* Hvar of initialiseMatrices on cell I: diagonal, its entry of a Dirichlet
\* boundary face cleared.
Hvar(I) ==
  Force([a \in 0..1 |-> [b \in 0..1 |->
    IF a # b THEN Zero
    ELSE IF a = 0
    THEN (IF IsLowerDirichlet(I) THEN Zero ELSE RSub(RNeg(c_fn), tau))
    ELSE (IF IsUpperDirichlet(I) THEN Zero ELSE RSub(c_fn, tau))]])

CellA(I) == BlockDiag(MassMatrix(I), k + 1, k + 1, Zero)

CellB(I) == BlockDiag(DerivativeMatrix(I), k + 1, k + 1, Zero)

CellD(I) == BlockDiag(Dvar(I), k + 1, k + 1, Zero)

\* C and E are never zeroed: outside the blocks assigned they hold whatever
\* their allocation held (uninit).
CellC(I, uninit) == BlockDiag(Cvar(I), 2, k + 1, uninit)

CellE(I, uninit) == BlockDiag(Evar(I), k + 1, 2, uninit)

CellG(I) == BlockDiag(Gvar(I), 2, k + 1, Zero)

CellH(I) == BlockDiag(Hvar(I), 2, 2, Zero)

CellX(I) == BlockDiag(MassMatrix(I), k + 1, k + 1, Zero)

\* The block M of a cell with blocks A, B, D, before the Jacobian step adds X, NLq, NLu, Fq:
\*   ( 0  -A  -B^T )
\*   ( B   0   D   )
\*   ( A   0   0   )
CellM(A, B, D) ==
  LET n == nVar * (k + 1)
      Blocks(O) ==
        BlockMatrix(<< <<O, MatNeg(A), MatNeg(Transpose(B, n, n))>>,
                       <<B, O, D>>,
                       <<A, O, O>> >>, 3, 3, n, n)
  IN Blocks(MatZero(n, n))

\* CE_vec of a cell with blocks C, E: C^T over E over 0
CellCE(C, E) ==
  LET n == nVar * (k + 1)
  IN BlockMatrix(<< <<Transpose(C, 2 * nVar, n)>>, <<E>>, <<MatZero(n, 2 * nVar)>> >>,
                 3, 1, n, 2 * nVar)

\* CG of a cell with blocks C, G: [ C 0 G ]
CellCG(C, G) ==
  LET n == nVar * (k + 1)
  IN BlockMatrix(<< <<C, MatZero(2 * nVar, n), G>> >>, 1, 3, 2 * nVar, n)

\* Basis.phi(I, j%k+1)(I.x_u): with k = 0 the remainder is a division by
\* zero, and mz is the value the evaluation then gives.
UpperPhi(I, j, mz) == IF k = 0 THEN mz ELSE Phi(I, (j % k) + 1, I.x_u)

\* RF_cellwise[i] at time t
CellRF(I, t, mz) ==
  LET n == nVar * (k + 1)
  IN Force([x \in 0..(2 * n - 1) |->
       IF x < n
       THEN RAdd(IF IsLowerDirichlet(I)
                 THEN RMul(RMul(RNeg(Phi(I, x % (k + 1), I.x_l)), R(-1)), g_D(I.x_l, t))
                 ELSE Zero,
                 IF IsUpperDirichlet(I)
                 THEN RMul(RMul(RNeg(UpperPhi(I, x, mz)), R(1)), g_D(I.x_u, t))
                 ELSE Zero)
       ELSE LET j == x - n
            IN RSub(RSub(CellProduct(I, RHS(I.x_l), j % (k + 1)),
                         IF IsLowerDirichlet(I)
                         THEN RMul(RMul(Phi(I, j % (k + 1), I.x_l), RSub(RNeg(c_fn), tau)),
                                   g_D(I.x_l, t))
                         ELSE Zero),
                    IF IsUpperDirichlet(I)
                    THEN RMul(RMul(Phi(I, j % (k + 1), I.x_u), RSub(c_fn, tau)),
                              g_D(I.x_u, t))
                    ELSE Zero)])

\* The loops over cells and variables run nCells*nVar steps; step s is
\* cell s \div nVar, variable s % nVar, and it works on the two faces of
\* the cell, at var*(nCells+1)+i of a trace vector.
StepCell(s) == s \div nVar

StepVar(s) == s % nVar

FacePos(s) == StepVar(s) * (nCells + 1) + StepCell(s)

\* The trace vector after every step s did block<2,1>(FacePos(s)) += vals[s],
\* starting from v0.
GatherFaces(v0, vals) ==
  Force([a \in 0..(nVar * (nCells + 1) - 1) |->
    RAdd(v0[a],
         SumTo([s \in 0..(nCells * nVar - 1) |->
                 IF a - FacePos(s) \in {0, 1} THEN vals[s][a - FacePos(s)] ELSE Zero],
               0, nCells * nVar - 1))])

\* The trace matrix after every step s did
\* block(FacePos(s), FacePos(s), 2, 2) += blocks[s], starting from zero.
GatherFaceBlocks(blocks) ==
  Force([a \in 0..(nVar * (nCells + 1) - 1) |-> [b \in 0..(nVar * (nCells + 1) - 1) |->
    SumTo([s \in 0..(nCells * nVar - 1) |->
            IF a - FacePos(s) \in {0, 1} /\ b - FacePos(s) \in {0, 1}
            THEN blocks[s][a - FacePos(s)][b - FacePos(s)] ELSE Zero],
          0, nCells * nVar - 1)]])

\* The matrix H_global factorises.
HGlobalMat ==
  GatherFaceBlocks([s \in 0..(nCells * nVar - 1) |-> Hvar(Interval(StepCell(s)))])

\* L_global at time t: g_N added at the face of a Neumann boundary
LGlobal(t) ==
  GatherFaces(VecZero(nVar * (nCells + 1)),
    [s \in 0..(nCells * nVar - 1) |->
      LET I == Interval(StepCell(s))
      IN [e \in 0..1 |->
           IF e = 0
           THEN (IF I.x_l = BCs.LowerBound /\ ~BCs.isLBoundDirichlet
                 THEN g_N(BCs.LowerBound, t) ELSE Zero)
           ELSE (IF I.x_u = BCs.UpperBound /\ ~BCs.isUBoundDirichlet
                 THEN g_N(BCs.UpperBound, t) ELSE Zero)]])

\* One matrix per cell, in cell order.
Cellwise(Op(_)) == [i \in 1..nCells |-> Op(Interval(i - 1))]

(***************************************************************************)
(* Eigen::FullPivLU.                                                       *)
(***************************************************************************)
SwapRows(a, i, j) == [a EXCEPT ![i] = a[j], ![j] = a[i]]

SwapCols(a, i, j) == Force([r \in DOMAIN a |-> [a[r] EXCEPT ![i] = a[r][j], ![j] = a[r][i]]])

\* Row, column and size of the entry of largest absolute value in the
\* corner s..n-1 x s..n-1, the first such in column-major order.
BiggestInCorner(a, n, s) ==
  LET w == n - s
      Largest(vals) == CHOOSE v \in vals : \A o \in vals : ~RGt(o, v)
      First(idxs) == CHOOSE x \in idxs : \A y \in idxs : x <= y
      At(ix, mx) == <<s + (ix % w), s + (ix \div w), mx>>
      Find(mx) ==
        At(First({x \in 0..(w * w - 1) : RAbs(a[s + (x % w)][s + (x \div w)]) = mx}), mx)
  IN Find(Largest({RAbs(a[i][j]) : i \in s..(n - 1), j \in s..(n - 1)}))

RECURSIVE Eliminate(_, _, _, _, _)
\* Elimination with full pivoting of the n x w matrix a (the n x n matrix
\* with the right-hand sides appended) from step s on; it stops at the
\* first corner without a nonzero entry.
Eliminate(a, n, w, s, perm) ==
  IF s >= n THEN [a |-> a, perm |-> perm, rank |-> n]
  ELSE LET Row(a1, i, f) ==
             IF f = Zero THEN a1[i]
             ELSE [j \in 0..(w - 1) |->
                    IF j < s THEN a1[i][j] ELSE RSub(a1[i][j], RMul(f, a1[s][j]))]
           Reduce(a1) ==
             Force([i \in 0..(n - 1) |->
               IF i <= s THEN a1[i] ELSE Row(a1, i, RDiv(a1[i][s], a1[s][s]))])
           Go(a2, p1) == After(a2, Eliminate(a2, n, w, s + 1, p1))
           Pivot(b) ==
             IF b[3] = Zero THEN [a |-> a, perm |-> perm, rank |-> s]
             ELSE Go(Reduce(SwapCols(SwapRows(a, s, b[1]), s, b[2])),
                     [perm EXCEPT ![s] = perm[b[2]], ![b[2]] = perm[s]])
       IN Pivot(BiggestInCorner(a, n, s))

RECURSIVE BackSubstitute(_, _, _, _, _)
\* The upper-triangular solve on the leading r x r corner for column col.
BackSubstitute(a, r, col, i, y) ==
  IF i < 0 THEN y
  ELSE LET Go(yi) == After(yi, BackSubstitute(a, r, col, i - 1, [y EXCEPT ![i] = yi]))
       IN Go(RDiv(RSub(a[i][col],
                       SumTo([j \in 0..(r - 1) |->
                               IF j > i THEN RMul(a[i][j], y[j]) ELSE Zero], 0, r - 1)),
                  a[i][i]))

\* FullPivLU(M).rank() for an n x n matrix
LuRank(M, n) == Eliminate(M, n, n, 0, [j \in 0..(n - 1) |-> j]).rank

\* FullPivLU(M).solve(B) for an n x n matrix M and an n x m matrix B: the
\* components outside the pivots found are set to zero, and no failure is
\* reported for a matrix of deficient rank.
LuSolve(M, B, n, m) ==
  LET Entry(fw, ys, c, pos) == IF pos < fw.rank THEN ys[c][pos] ELSE Zero
      Unpermute(fw, ys) ==
        Force([j \in 0..(n - 1) |-> [c \in 0..(m - 1) |->
          Entry(fw, ys, c, CHOOSE p \in 0..(n - 1) : fw.perm[p] = j)]])
      Back(fw) ==
        Unpermute(fw,
          Force([c \in 0..(m - 1) |->
            BackSubstitute(fw.a, fw.rank, n + c, fw.rank - 1, [j \in 0..(n - 1) |-> Zero])]))
      Forward(aug) == Back(Force(Eliminate(aug, n, n + m, 0, [j \in 0..(n - 1) |-> j])))
  IN Forward(Force([i \in 0..(n - 1) |-> [j \in 0..(n + m - 1) |->
                     IF j < n THEN M[i][j] ELSE B[i][j - n]]]))

\* FullPivLU(M).solve(b) for a vector b
LuSolveVec(M, b, n) ==
  LET Column(x) == Force([i \in 0..(n - 1) |-> x[i][0]])
  IN Column(LuSolve(M, [i \in 0..(n - 1) |-> [c \in 0..0 |-> b[i]]], n, 1))

(***************************************************************************)
(* The providers and the initial-condition library.                        *)
(***************************************************************************)
\* getKappaFunc(var)(x, Q, U), from the values qv, uv of the variable's
\* fields at x
Kappa(case, qv, uv) ==
  IF case = "Linear" THEN qv ELSE RMul(uv, qv)

\* The integrand of NLqMat: the derivative of kappa by q
DKappaDq(case, qv, uv) ==
  IF case = "Linear" THEN One ELSE uv

\* The integrand of NLuMat: the derivative of kappa by u
DKappaDu(case, qv, uv) ==
  IF case = "Linear" THEN Zero ELSE qv

\* getSourceFunc(var)(x, Q, U)
Source(case, qv, uv) ==
  IF case = "None" THEN Zero
  ELSE IF case = "Linear" THEN uv
  ELSE RDiv(One, uv)

\* The integrand of setdFdqMat: the derivative of the source by q
DSourceDq(case, qv, uv) == Zero

\* The derivative of the source by u
DSourceDu(case, qv, uv) ==
  IF case = "None" THEN Zero
  ELSE IF case = "Linear" THEN One
  ELSE RNeg(RDiv(One, RMul(uv, uv)))

\* The functions of the initial-condition library, as a + b x.
UInitial(case) ==
  IF case = "Const" THEN [a |-> One, b |-> Zero] ELSE [a |-> Zero, b |-> One]

QInitial(case) ==
  IF case = "Const" THEN [a |-> Zero, b |-> Zero] ELSE [a |-> One, b |-> Zero]

\* sigma_0 = -kappa(q_0, u_0)
SigInitial(case, diffusionCase) ==
  IF case = "Const" THEN [a |-> Zero, b |-> Zero]
  ELSE IF diffusionCase = "Linear" THEN [a |-> R(-1), b |-> Zero]
  ELSE [a |-> Zero, b |-> R(-1)]

\* <f, phi_j> on I for f(x) = a + b x
Project(I, f, j) ==
  LET h == RSub(I.x_u, I.x_l)
      mid == RDiv(RAdd(I.x_l, I.x_u), R(2))
  IN IF j = 0 THEN RMul(BasisNorm(I, 0), RMul(h, RAdd(f.a, RMul(f.b, mid))))
     ELSE IF j = 1 THEN RMul(BasisNorm(I, 1), RMul(f.b, RDiv(RMul(h, h), R(6))))
     ELSE Zero

(***************************************************************************)
(* Assembly and initial conditions.                                        *)
(***************************************************************************)
\* Outcomes of the remainder j%k with k = 0: the process is trapped, or
\* the evaluation yields some value val.
ModZeroOutcomes ==
  {[trap |-> TRUE, val |-> Zero], [trap |-> FALSE, val |-> Zero], [trap |-> FALSE, val |-> One]}

\* The outcomes of the upper Dirichlet loop of a boundary update.
UpperLoopOutcomes ==
  IF k = 0 /\ BCs.isUBoundDirichlet THEN ModZeroOutcomes
  ELSE {[trap |-> FALSE, val |-> Zero]}

\* What the entries of C and E that are never assigned may hold.
UninitValues == IF nVar > 1 THEN {Zero, One} ELSE {Zero}

\* The body of SystemSolver::initialiseMatrices(): clearCellwiseVecs
\* empties every per-cell container but D_cellwise and CEBlocks, then the
\* blocks of each cell are appended.
AssembleCells ==
  /\ \E mz \in UpperLoopOutcomes, uninit \in UninitValues :
       IF mz.trap
       THEN /\ pc' = "crashed"
            /\ err' = "SIGFPE"
            /\ UNCHANGED <<initialised, cellVars, bcVars, K_global>>
       ELSE /\ LET CellCu(I) == CellC(I, uninit)
                   CellEu(I) == CellE(I, uninit)
                   CellRF0(I) == CellRF(I, Zero, mz.val)
               IN \E A \in {Cellwise(CellA)}, B \in {Cellwise(CellB)},
                     D \in {Cellwise(CellD)}, C \in {Cellwise(CellCu)},
                     E \in {Cellwise(CellEu)}, G \in {Cellwise(CellG)} :
                    /\ A_cellwise' = A
                    /\ B_cellwise' = B
                    /\ D_cellwise' = D_cellwise \o D
                    /\ MBlocks' = [i \in 1..nCells |-> CellM(A[i], B[i], D[i])]
                    /\ CEBlocks' = CEBlocks \o [i \in 1..nCells |-> CellCE(C[i], E[i])]
                    /\ C_cellwise' = C
                    /\ E_cellwise' = E
                    /\ RF_cellwise' = Cellwise(CellRF0)
                    /\ CG_cellwise' = [i \in 1..nCells |-> CellCG(C[i], G[i])]
                    /\ G_cellwise' = G
                    /\ H_cellwise' = Cellwise(CellH)
                    /\ XMats' = Cellwise(CellX)
            /\ K_global' = MatZero(nVar * (nCells + 1), nVar * (nCells + 1))
            /\ L_global' = LGlobal(Zero)
            /\ H_global' = HGlobalMat
            /\ initialised' = TRUE
            /\ pc' = "allocate"
            /\ UNCHANGED err
  /\ UNCHANGED <<cfg, evalRet, dimVars, fieldVars, vecVars, coefVars, BCs, derivVars,
                 cbVars, rs, files>>

\* runSolver: system.initialiseMatrices()
InitialiseMatrices ==
  /\ pc = "initialise"
  /\ AssembleCells

\* The most calls of initialiseMatrices on one solver.
MaxAssemblies == 2

\* A further call of the public initialiseMatrices() on the assembled
\* solver, before the initial conditions are set.
InitialiseMatricesAgain ==
  /\ pc = "allocate"
  /\ initialised
  /\ Len(D_cellwise) < MaxAssemblies * nCells
  /\ AssembleCells

\* The vector a view reads: y for the state vector, yp for the derivative.
BufferOf(w, y, yp) == IF w.buf = "Y" THEN y ELSE yp

\* The coefficients seen through view w
Coeffs(w, y, yp) == Seg(BufferOf(w, y, yp), w.off, w.len)

\* x at the middle of I
Mid(I) == RDiv(RAdd(I.x_l, I.x_u), R(2))

\* The value on cell i of the field of variable var whose views are
\* approx: a polynomial of degree 0 is constant on its cell.
FieldValue(approx, var, i, y, yp) ==
  Evaluate(Interval(i), approx[var + 1][i + 1], BufferOf(approx[var + 1][i + 1], y, yp),
           Mid(Interval(i)))

\* vec after tab[var + 1][i + 1] is written through the view of every
\* variable var and cell i of approx.
WriteViews(approx, vec, tab) ==
  Force([x \in DOMAIN vec |->
    LET hits == {p \in (0..(nVar - 1)) \X (0..(nCells - 1)) :
                   /\ approx[p[1] + 1][p[2] + 1].off <= x
                   /\ x < approx[p[1] + 1][p[2] + 1].off + approx[p[1] + 1][p[2] + 1].len}
    IN IF hits = {} THEN vec[x]
       ELSE LET p == CHOOSE h \in hits : TRUE
            IN tab[p[1] + 1][p[2] + 1][x - approx[p[1] + 1][p[2] + 1].off]])

\* A table of one value per variable and cell.
PerVarCell(Op(_, _)) ==
  Force([v \in 1..nVar |-> [c \in 1..nCells |-> Op(v - 1, c - 1)]])

\* DGApprox::operator=(f): the projection of f written through the views.
AssignFunction(approx, f, vec) ==
  LET Proj(var, i) == [j \in 0..k |-> Project(Interval(i), f, j)]
  IN WriteViews(approx, vec, PerVarCell(Proj))

CsGuL_plusG(sv, uv, y, L) ==
  LET CellTimes(M, w, i, var) ==
        MatVec(Block(M[i + 1], var * 2, var * (k + 1), 2, k + 1),
               Coeffs(w[var + 1][i + 1], y, y), 2, k + 1)
      Val(s, i, var) ==
        VecAdd(VecSub(Seg(L, FacePos(s), 2), CellTimes(C_cellwise, sv, i, var)),
               CellTimes(G_cellwise, uv, i, var))
  IN GatherFaces(VecZero(nVar * (nCells + 1)),
                 Force([s \in 0..(nCells * nVar - 1) |-> Val(s, StepCell(s), StepVar(s))]))

\* L - C sigma - G u gathered on the faces, for the fields with views sv,
\* uv on vector y.
CsGuL(sv, uv, y, L) ==
  LET CellTimes(M, w, i, var) ==
        MatVec(Block(M[i + 1], var * 2, var * (k + 1), 2, k + 1),
               Coeffs(w[var + 1][i + 1], y, y), 2, k + 1)
      Val(s, i, var) ==
        VecSub(VecSub(Seg(L, FacePos(s), 2), CellTimes(C_cellwise, sv, i, var)),
               CellTimes(G_cellwise, uv, i, var))
  IN GatherFaces(VecZero(nVar * (nCells + 1)),
                 Force([s \in 0..(nCells * nVar - 1) |-> Val(s, StepCell(s), StepVar(s))]))

\* H_global.solve(L - C sigma - G u)
TraceSolve(sv, uv, y, L) ==
  LuSolveVec(H_global, CsGuL(sv, uv, y, L), nVar * (nCells + 1))

\* [lambda(var, i), lambda(var, i + 1)] read from the trace values lam
LamCell(lam, var, i) ==
  [e \in 0..1 |-> lam[var * (nCells + 1) + i + e]]

\* dudt of setInitialConditions written through the views dv into yp, the
\* fields being read from y.
InitialDudt(sv, qv, uv, dv, y, yp) ==
  LET n1 == k + 1
      CellTimes(M, w, var, i) ==
        MatVec(Block(M[i + 1], var * n1, var * n1, n1, n1),
               Coeffs(w[var + 1][i + 1], y, y), n1, n1)
      Bs(var, i) == CellTimes(B_cellwise, sv, var, i)
      Du(var, i) == CellTimes(D_cellwise, uv, var, i)
      El(var, i) ==
        MatVec(Block(E_cellwise[i + 1], var * n1, var * 2, n1, 2),
               LamCell(Seg(y, LamOffset, LamLength), var, i), n1, 2)
      RFu(var, i) == Seg(RF_cellwise[i + 1], nVar * n1 + var * n1, n1)
      SourceAt(qval) == Source(cfg["Reaction_case"].s, qval, qval)
      F_cellwise(var, i) ==
        Force([j \in 0..k |->
          CellProduct(Interval(i), SourceAt(FieldValue(qv, var, i, y, y)), j)])
      Val(var, i) ==
        VecSub(VecAdd(VecSub(VecSub(VecNeg(Bs(var, i)), Du(var, i)), El(var, i)),
                      RFu(var, i)),
               F_cellwise(var, i))
  IN WriteViews(dv, yp, PerVarCell(Val))

ResetCoeffs_noLambda(sv, qv, uv, lam, vec) ==
  LET covered ==
        UNION {UNION {UNION {ViewIndices(f[v][i]) : i \in DOMAIN f[v]} : v \in DOMAIN f} :
                 f \in {sv, qv, uv}}
  IN [x \in DOMAIN vec |-> IF x \in covered THEN Zero ELSE vec[x]]

\* SystemSolver::resetCoeffs on one of the two vectors: zero is written
\* through every view of the three fields and through the trace view.
ResetCoeffs(sv, qv, uv, lam, vec) ==
  LET covered ==
        UNION {UNION {UNION {ViewIndices(f[v][i]) : i \in DOMAIN f[v]} : v \in DOMAIN f} :
                 f \in {sv, qv, uv}}
          \cup ViewIndices(lam)
  IN [x \in DOMAIN vec |-> IF x \in covered THEN Zero ELSE vec[x]]

\* runSolver: the vectors are allocated and zeroed, then
\* SystemSolver::setInitialConditions(Y, dYdt) binds the members, projects
\* the initial functions and sets lambda and dudt.
SetInitialConditions ==
  /\ pc = "allocate"
  /\ initialised
  /\ LET sig1 == sig \o SigViews("Y")
         q1 == q \o QViews("Y")
         u1 == u \o UViews("Y")
         ds1 == dsigdt \o SigViews("dYdt")
         dq1 == dqdt \o QViews("dYdt")
         du1 == dudt \o UViews("dYdt")
         ic == cfg["Initial_condition"].s
     IN \E y0 \in {ResetCoeffs(sig1, q1, u1, LamView("Y"), VecZero(StateLength))} :
        \E yp0 \in {ResetCoeffs(ds1, dq1, du1, LamView("dYdt"), VecZero(StateLength))} :
        \E yU \in {AssignFunction(u1, UInitial(ic), y0)} :
        \E yQ \in {AssignFunction(q1, QInitial(ic), yU)} :
        \E yS \in {AssignFunction(sig1, SigInitial(ic, cfg["Diffusion_case"].s), yQ)} :
        \E yL \in {SetSeg(yS, LamOffset, LamLength, TraceSolve(sig1, u1, yS, L_global))} :
          /\ sig' = sig1 /\ q' = q1 /\ u' = u1
          /\ dsigdt' = ds1 /\ dqdt' = dq1 /\ dudt' = du1
          /\ lambda' = LamView("Y")
          /\ dlamdt' = LamView("dYdt")
          /\ Y' = yL
          /\ dYdt' = InitialDudt(sig1, q1, u1, du1, yL, yp0)
  /\ pc' = "setid"
  /\ UNCHANGED <<err, cfg, evalRet, dimVars, idVals, coefVars, BCs, initialised, cellVars,
                 bcVars, K_global, cbVars, rs, files>>

\* runSolver: the id mask and the set-up of the integrator
SetId ==
  /\ pc = "setid"
  /\ idVals' = IdMask
  /\ pc' = "print"
  /\ UNCHANGED <<err, cfg, evalRet, dimVars, fieldVars, Y, dYdt, solverVars>>

(***************************************************************************)
(* Output.                                                                 *)
(***************************************************************************)
\* Number of sample points of a frame (301 in runSolver), and of the frame
\* residual writes (200).
nOut == 3
TrialOut == 2

\* Names of the files of runSolver: the plot file named after the input
\* file and the file of channel 1.
Out0 == "input.plot"

Out1 == "u_t_1.plot"

HeaderLine(t) == [kind |-> "header", t |-> t, cols |-> <<>>]

DataLine(cols) == [kind |-> "data", t |-> Zero, cols |-> cols]

BlankLine == [kind |-> "blank", t |-> Zero, cols |-> <<>>]

EvalCoeffs_zero(cs, x, var, y, yp) ==
  LET Through(w, i) == Evaluate(Interval(i - 1), w, BufferOf(w, y, yp), x)
      In(i) == Through(cs[var + 1][i], i)
      FirstOf(hits) ==
        IF hits = {} THEN Zero ELSE In(CHOOSE h \in hits : \A o \in hits : h <= o)
  IN FirstOf({i \in 1..Len(cs[var + 1]) : Contains(Interval(i - 1), x)})

\* SystemSolver::EvalCoeffs(Basis, cs, x, var)
EvalCoeffs(cs, x, var, y, yp) ==
  LET Through(w, i) == Evaluate(Interval(i - 1), w, BufferOf(w, y, yp), x)
      In(i) == Through(cs[var + 1][i], i)
      FirstOf(hits) ==
        IF hits = {} THEN NaN ELSE In(CHOOSE h \in hits : \A o \in hits : h <= o)
  IN FirstOf({i \in 1..Len(cs[var + 1]) : Contains(Interval(i - 1), x)})

\* The sample point i of n
SamplePoint(i, n) ==
  RAdd(BCs.LowerBound, RMul(RSub(BCs.UpperBound, BCs.LowerBound), RDiv(R(i), R(n))))

\* SystemSolver::print(out, t, nOut, var): the lines written, the vectors
\* the members view holding y and yp
PrintFrame(t, n, var, y, yp) ==
  LET fields == <<u, q, sig, dudt, dqdt, dsigdt>>
      Line(x) == DataLine(<<x>> \o [c \in 1..6 |-> EvalCoeffs(fields[c], x, var, y, yp)])
  IN <<HeaderLine(t)>> \o [l \in 1..n |-> Line(SamplePoint(l - 1, n))] \o <<BlankLine>>

\* SystemSolver::print(out, t, nOut, var, tempY): the lines written
PrintFrameOf(t, n, var, tempY) ==
  LET fields == <<UViews("Y"), QViews("Y"), SigViews("Y")>>
      Line(x) ==
        DataLine(<<x>> \o [c \in 1..3 |-> EvalCoeffs(fields[c], x, var, tempY, tempY)])
  IN <<HeaderLine(t)>> \o [l \in 1..n |-> Line(SamplePoint(l - 1, n))] \o <<BlankLine>>

\* The file system after name is opened for writing and lines are written.
Written(fs, name, lines) ==
  [f \in DOMAIN fs \cup {name} |-> IF f = name THEN lines ELSE fs[f]]

\* The files after runSolver printed at time t0 to the first file and at
\* time t1 to the second.
Printed(fs, y, yp, t0, t1) ==
  LET Frame(f, name, t, var) == Written(f, name, f[name] \o PrintFrame(t, nOut, var, y, yp))
      Second(f0) == IF nVar > 1 THEN Frame(f0, Out1, t1, 1) ELSE f0
  IN Second(Frame(fs, Out0, t0, 0))

\* runSolver: the output files are opened and the initial frame printed
PrintInitial ==
  /\ pc = "print"
  /\ files' = Printed(Written(Written(files, Out0, <<>>), Out1, <<>>), Y, dYdt,
                      rs.t0, rs.t0)
  /\ pc' = "calcIC"
  /\ UNCHANGED <<err, cfg, evalRet, dimVars, fieldVars, vecVars, coefVars, BCs, initialised,
                 cellVars, bcVars, K_global, derivVars, cbVars, rs>>

CellResidual_dqdt(var, i, y, yp, RF, lamv) ==
  LET I == Interval(i)
      n1 == k + 1
      tempSig == SigViews("Y")
      tempQ == QViews("Y")
      tempU == UViews("Y")
      tempdudt == UViews("dYdt")
      tempdqdt == QViews("dYdt")
      lamCell == LamCell(lamv, var, i)
      Of(w) == Coeffs(w[var + 1][i + 1], y, yp)
      Sq(M) == Block(M, var * n1, var * n1, n1, n1)
      Aq == MatVec(Sq(A_cellwise[i + 1]), Of(tempQ), n1, n1)
      BTu == MatVec(Sq(Transpose(B_cellwise[i + 1], nVar * n1, nVar * n1)), Of(tempU), n1, n1)
      CTl == MatVec(Block(Transpose(C_cellwise[i + 1], 2 * nVar, nVar * n1),
                          var * n1, var * 2, n1, 2),
                    lamCell, n1, 2)
      Bs == MatVec(Sq(B_cellwise[i + 1]), Of(tempSig), n1, n1)
      Du == MatVec(Sq(D_cellwise[i + 1]), Of(tempU), n1, n1)
      El == MatVec(Block(E_cellwise[i + 1], var * n1, var * 2, n1, 2), lamCell, n1, 2)
      Results(kappa_cellwise, F_cellwise) ==
        [res1 |-> VecAdd(VecSub(VecAdd(VecSub(VecNeg(Aq), BTu), CTl), Seg(RF[i + 1], var * n1, n1)),
                          Of(tempdqdt)),
         res2 |-> VecAdd(VecAdd(VecSub(VecAdd(VecAdd(Bs, Du), El),
                                       Seg(RF[i + 1], nVar * n1 + var * n1, n1)),
                                Of(tempdudt)),
                         F_cellwise),
         res3 |-> VecAdd(Of(tempSig), kappa_cellwise)]
      At(qval, uval) ==
        Results(Force([j \in 0..k |->
                  CellProduct(I, Kappa(cfg["Diffusion_case"].s, qval, uval), j)]),
                Force([j \in 0..k |->
                  CellProduct(I, Source(cfg["Reaction_case"].s, qval, uval), j % (k + 1))]))
  IN At(FieldValue(tempQ, var, i, y, yp), FieldValue(tempU, var, i, y, yp))

(***************************************************************************)
(* The residual.                                                           *)
(***************************************************************************)
\* res1, res2, res3 of the step of cell i and variable var of residual,
\* for state y, derivative yp, boundary data RF and trace values lamv.
CellResidual(var, i, y, yp, RF, lamv) ==
  LET I == Interval(i)
      n1 == k + 1
      tempSig == SigViews("Y")
      tempQ == QViews("Y")
      tempU == UViews("Y")
      tempdudt == UViews("dYdt")
      lamCell == LamCell(lamv, var, i)
      Of(w) == Coeffs(w[var + 1][i + 1], y, yp)
      Sq(M) == Block(M, var * n1, var * n1, n1, n1)
      Aq == MatVec(Sq(A_cellwise[i + 1]), Of(tempQ), n1, n1)
      BTu == MatVec(Sq(Transpose(B_cellwise[i + 1], nVar * n1, nVar * n1)), Of(tempU), n1, n1)
      CTl == MatVec(Block(Transpose(C_cellwise[i + 1], 2 * nVar, nVar * n1),
                          var * n1, var * 2, n1, 2),
                    lamCell, n1, 2)
      Bs == MatVec(Sq(B_cellwise[i + 1]), Of(tempSig), n1, n1)
      Du == MatVec(Sq(D_cellwise[i + 1]), Of(tempU), n1, n1)
      El == MatVec(Block(E_cellwise[i + 1], var * n1, var * 2, n1, 2), lamCell, n1, 2)
      Results(kappa_cellwise, F_cellwise) ==
        [res1 |-> VecSub(VecAdd(VecSub(VecNeg(Aq), BTu), CTl), Seg(RF[i + 1], var * n1, n1)),
         res2 |-> VecAdd(VecAdd(VecSub(VecAdd(VecAdd(Bs, Du), El),
                                       Seg(RF[i + 1], nVar * n1 + var * n1, n1)),
                                Of(tempdudt)),
                         F_cellwise),
         res3 |-> VecAdd(Of(tempSig), kappa_cellwise)]
      At(qval, uval) ==
        Results(Force([j \in 0..k |->
                  CellProduct(I, Kappa(cfg["Diffusion_case"].s, qval, uval), j)]),
                Force([j \in 0..k |->
                  CellProduct(I, Source(cfg["Reaction_case"].s, qval, uval), j % (k + 1))]))
  IN At(FieldValue(tempQ, var, i, y, yp), FieldValue(tempU, var, i, y, yp))

ResidualVector_plusLambda(y, yp, L, RF) ==
  LET tempLambda == Seg(y, LamOffset, LamLength)
      Res(var, i) == CellResidual(var, i, y, yp, RF, tempLambda)
      Write(r4, tab) ==
        WriteViews(UViews("Y"),
          WriteViews(QViews("Y"),
            WriteViews(SigViews("Y"), r4,
                       [v \in 1..nVar |-> [c \in 1..nCells |-> tab[v][c].res1]]),
            [v \in 1..nVar |-> [c \in 1..nCells |-> tab[v][c].res2]]),
          [v \in 1..nVar |-> [c \in 1..nCells |-> tab[v][c].res3]])
  IN Write(SetSeg(VecZero(StateLength), LamOffset, LamLength,
                  VecAdd(tempLambda,
                         TraceSolve(SigViews("Y"), UViews("Y"), y, L))),
           PerVarCell(Res))

\* resval of residual(tres, Y, dydt, resval) for boundary data L, RF: the
\* trace block, then res1, res2 and res3 of every step, written to the
\* sigma, q and u slots.
ResidualVector(y, yp, L, RF) ==
  LET tempLambda == Seg(y, LamOffset, LamLength)
      Res(var, i) == CellResidual(var, i, y, yp, RF, tempLambda)
      Write(r4, tab) ==
        WriteViews(UViews("Y"),
          WriteViews(QViews("Y"),
            WriteViews(SigViews("Y"), r4,
                       [v \in 1..nVar |-> [c \in 1..nCells |-> tab[v][c].res1]]),
            [v \in 1..nVar |-> [c \in 1..nCells |-> tab[v][c].res2]]),
          [v \in 1..nVar |-> [c \in 1..nCells |-> tab[v][c].res3]])
  IN Write(SetSeg(VecZero(StateLength), LamOffset, LamLength,
                  VecAdd(VecNeg(tempLambda),
                         TraceSolve(SigViews("Y"), UViews("Y"), y, L))),
           PerVarCell(Res))

\* SystemSolver::isTesting()
IsTesting == FALSE

\* VectorWrapper::norm() of a vector whose squares sum to a rational square
VecNorm(v) ==
  LET n == VecLen(v)
  IN SqrtR(SumTo([i \in 0..(n - 1) |-> RMul(v[i], v[i])], 0, n - 1))

(***************************************************************************)
(* The linear solve.                                                       *)
(***************************************************************************)
\* A matrix of nVar diagonal blocks, block var being Wt(var).
BlockDiagOf(Wt(_)) ==
  Force([i \in 0..(nVar * (k + 1) - 1) |-> [j \in 0..(nVar * (k + 1) - 1) |->
    IF i \div (k + 1) = j \div (k + 1)
    THEN Wt(i \div (k + 1))[i % (k + 1)][j % (k + 1)]
    ELSE Zero]])

\* diffObj->NLqMat(NLq, newQ, newU, I) on cell i, qv and uv being the
\* values of newQ and newU on the cell, by variable
NLqMat(i, qv, uv) ==
  LET Wt(var) == MassMatrixW(Interval(i), DKappaDq(cfg["Diffusion_case"].s, qv[var], uv[var]))
  IN BlockDiagOf(Wt)

\* diffObj->NLuMat(NLu, newQ, newU, I) on cell i
NLuMat(i, qv, uv) ==
  LET Wt(var) == MassMatrixW(Interval(i), DKappaDu(cfg["Diffusion_case"].s, qv[var], uv[var]))
  IN BlockDiagOf(Wt)

\* sourceObj->setdFdqMat(F, newQ, newU, I) on cell i
dFdqMat(i, qv, uv) ==
  LET Wt(var) == MassMatrixW(Interval(i), DSourceDq(cfg["Reaction_case"].s, qv[var], uv[var]))
  IN BlockDiagOf(Wt)

\* updateMForJacSolve: the matrix MX of cell i for the members q, u
\* (delQ and delU are zero when it runs): X is added to the block at
\* (n, 2n), NLq and NLu are set at (2n, n) and (2n, 2n), and the matrix of
\* setdFdqMat is added at (n, n) twice.
MXOf(i, a, y, yp) ==
  LET n == nVar * (k + 1)
      Xw(var) == MassMatrixW(Interval(i), a)
      Fill(M, X, NLq, NLu, Fq) ==
        Force([r \in 0..(3 * n - 1) |-> [c \in 0..(3 * n - 1) |->
          CASE r \div n = 1 /\ c \div n = 2 -> RAdd(M[r][c], X[r % n][c % n])
            [] r \div n = 2 /\ c \div n = 1 -> NLq[r % n][c % n]
            [] r \div n = 2 /\ c \div n = 2 -> NLu[r % n][c % n]
            [] r \div n = 1 /\ c \div n = 1 ->
                 RAdd(RAdd(M[r][c], Fq[r % n][c % n]), Fq[r % n][c % n])
            [] OTHER -> M[r][c]]])
      With(qv, uv) ==
        Fill(MBlocks[i + 1], BlockDiagOf(Xw), NLqMat(i, qv, uv), NLuMat(i, qv, uv),
             dFdqMat(i, qv, uv))
  IN With(Force([var \in 0..(nVar - 1) |-> FieldValue(q, var, i, y, yp)]),
          Force([var \in 0..(nVar - 1) |-> FieldValue(u, var, i, y, yp)]))

\* SQU_f[i] and SQU_0[i], MX being the matrix of the cell
SQUf(i, MX, g) ==
  LuSolveVec(MX, Seg(g, i * 3 * nVar * (k + 1), 3 * nVar * (k + 1)), 3 * nVar * (k + 1))

SQU0(i, MX) == LuSolve(MX, CEBlocks[i + 1], 3 * nVar * (k + 1), 2 * nVar)

\* K_cell of cell i from SQU_0[i]
KCell(i, squ0) ==
  MatSub(H_cellwise[i + 1],
         MatMul(CG_cellwise[i + 1], squ0, 2 * nVar, 3 * nVar * (k + 1), 2 * nVar))

KGlobal_noReset(squ0) ==
  LET Gather(kc) ==
        GatherFaceBlocks([s \in 0..(nCells * nVar - 1) |->
          Block(kc[StepCell(s)], StepVar(s) * 2, StepVar(s) * 2, 2, 2)])
      Onto(old, new) ==
        Force([a \in DOMAIN new |-> [b \in DOMAIN new[a] |-> RAdd(old[a][b], new[a][b])]])
  IN Onto(K_global, Gather(Force([i \in 0..(nCells - 1) |-> KCell(i, squ0[i])])))

\* K_global gathered over the steps, SQU_0 being squ0
KGlobal(squ0) ==
  LET Gather(kc) ==
        GatherFaceBlocks([s \in 0..(nCells * nVar - 1) |->
          Block(kc[StepCell(s)], StepVar(s) * 2, StepVar(s) * 2, 2, 2)])
  IN Gather(Force([i \in 0..(nCells - 1) |-> KCell(i, squ0[i])]))

\* F = g4 - CG SQU_f gathered over the steps
TraceRhs(g, squf) ==
  LET Gather(CGf) ==
        GatherFaces(Seg(g, LamOffset, LamLength),
          [s \in 0..(nCells * nVar - 1) |->
            VecNeg(Seg(CGf[StepCell(s)], StepVar(s) * 2, 2))])
  IN Gather(Force([i \in 0..(nCells - 1) |->
              MatVec(CG_cellwise[i + 1], squf[i], 2 * nVar, 3 * nVar * (k + 1))]))

\* delY: the trace block delLambda, and the cell unknowns
\* SQU_f - SQU_0 delLambdaCell of every cell, whose blocks are the sigma, q
\* and u slots of the cell, in order.
Recover(squf, squ0, delLambda) ==
  LET n3 == 3 * nVar * (k + 1)
      delLambdaCell(i) == [x \in 0..(2 * nVar - 1) |->
                            delLambda[(x \div 2) * (nCells + 1) + i + (x % 2)]]
      Join(delSQU) ==
        Force([x \in 0..(StateLength - 1) |->
          IF x < nCells * n3 THEN delSQU[x \div n3][x % n3]
          ELSE delLambda[x - LamOffset]])
  IN Join(Force([i \in 0..(nCells - 1) |->
            VecSub(squf[i], MatVec(squ0[i], delLambdaCell(i), n3, 2 * nVar))]))

(***************************************************************************)
(* The integrator: its callbacks and the loop of runSolver.                *)
(***************************************************************************)
\* Largest number of residual evaluations of a run.
MaxCalls == 2

ConstVec(a) == [i \in 0..(StateLength - 1) |-> a]

UnitVec(x) == [i \in 0..(StateLength - 1) |-> IF i = x THEN One ELSE Zero]

\* The iterates the integrator hands to residual, in vectors of its own:
\* the values of the vectors of runSolver, or a trial state and derivative.
Iterates ==
  {<<Y, dYdt>>, <<ConstVec(One), ConstVec(One)>>, <<ConstVec(Zero), ConstVec(Zero)>>}

\* The factor cj and the right-hand sides of the linear solves.
Alphas == {One, R(2)}

RightHandSides == {ConstVec(One), UnitVec(0)}

Integrating ==
  \/ pc = "calcIC"
  \/ pc = "solving" /\ RLe(R(rs.iout), rs.totalSteps)

\* The time of the integrator's callbacks.
CallTime == IF pc = "calcIC" THEN rs.t0 ELSE rs.tout

\* The last callback: its name, its time, the iterate of the last residual
\* and the right-hand side of the linear solve.
Called(name, t, y, yp, g) == [name |-> name, t |-> t, y |-> y, yp |-> yp, g |-> g]

Residual_stale ==
  /\ Integrating
  /\ total_steps < MaxCalls
  /\ \E it \in Iterates, mz \in UpperLoopOutcomes :
       IF mz.trap
       THEN /\ pc' = "crashed"
            /\ err' = "SIGFPE"
            /\ UNCHANGED <<bcVars, cbVars, files>>
       ELSE LET tres == CallTime
                CellRFt(I) == CellRF(I, tres, mz.val)
            IN \E RF \in {Cellwise(CellRFt)} :
               \E L \in {LGlobal(tres)} :
               \E res \in {ResidualVector(it[1], it[2], L_global, RF_cellwise)} :
                 /\ RF_cellwise' = RF
                 /\ L_global' = L
                 /\ resval' = res
                 /\ files' = Written(files, "trial.plot",
                                     PrintFrameOf(Zero, TrialOut, 0, it[2]))
                 /\ total_steps' = total_steps + 1
                 /\ resNorm' = IF IsTesting THEN VecNorm(res) ELSE resNorm
                 /\ resRet' = 0
                 /\ call' = Called("residual", tres, it[1], it[2], <<>>)
                 /\ UNCHANGED <<pc, err, alpha, delY>>
  /\ UNCHANGED <<cfg, evalRet, dimVars, fieldVars, vecVars, coefVars, BCs, initialised,
                 cellVars, K_global, derivVars, rs>>

\* residual(tres, Y, dydt, resval, user_data), on an iterate of the
\* integrator
Residual ==
  /\ Integrating
  /\ total_steps < MaxCalls
  /\ \E it \in Iterates, mz \in UpperLoopOutcomes :
       IF mz.trap
       THEN /\ pc' = "crashed"
            /\ err' = "SIGFPE"
            /\ UNCHANGED <<bcVars, cbVars, files>>
       ELSE LET tres == CallTime
                CellRFt(I) == CellRF(I, tres, mz.val)
            IN \E RF \in {Cellwise(CellRFt)} :
               \E L \in {LGlobal(tres)} :
               \E res \in {ResidualVector(it[1], it[2], L, RF)} :
                 /\ RF_cellwise' = RF
                 /\ L_global' = L
                 /\ resval' = res
                 /\ files' = Written(files, "trial.plot",
                                     PrintFrameOf(Zero, TrialOut, 0, it[2]))
                 /\ total_steps' = total_steps + 1
                 /\ resNorm' = IF IsTesting THEN VecNorm(res) ELSE resNorm
                 /\ resRet' = 0
                 /\ call' = Called("residual", tres, it[1], it[2], <<>>)
                 /\ UNCHANGED <<pc, err, alpha, delY>>
  /\ UNCHANGED <<cfg, evalRet, dimVars, fieldVars, vecVars, coefVars, BCs, initialised,
                 cellVars, K_global, derivVars, rs>>

\* The linear solver's solve: setAlpha(cj), then solveJacEq(g, delY), which
\* reads q and u through the views the members hold.
LinearSolve ==
  /\ Integrating
  /\ call.name = "residual"
  /\ \E a \in Alphas, g \in RightHandSides :
     \E MX \in {[i \in 0..(nCells - 1) |-> MXOf(i, a, Y, dYdt)]} :
     \E squf \in {[i \in 0..(nCells - 1) |-> SQUf(i, MX[i], g)]} :
     \E squ0 \in {[i \in 0..(nCells - 1) |-> SQU0(i, MX[i])]} :
     \E K \in {KGlobal(squ0)} :
     \E F \in {TraceRhs(g, squf)} :
     \E delLambda \in {LuSolveVec(K, F, nVar * (nCells + 1))} :
       /\ alpha' = a
       /\ K_global' = K
       /\ delY' = Recover(squf, squ0, delLambda)
       /\ call' = Called("solveJacEq", call.t, call.y, call.yp, g)
  /\ UNCHANGED <<pc, err, cfg, evalRet, dimVars, fieldVars, vecVars, coefVars, BCs,
                 initialised, cellVars, bcVars, derivVars, total_steps, resNorm,
                 resval, resRet, rs, files>>

\* IDACalcIC returns: on failure runSolver prints and throws
CalcICReturn ==
  /\ pc = "calcIC"
  /\ \E ok \in BOOLEAN :
       IF ok
       THEN /\ pc' = "solving"
            /\ rs' = [rs EXCEPT !.tout = rs.t1, !.iout = 1]
            /\ UNCHANGED <<err, files>>
       ELSE /\ files' = Printed(files, Y, dYdt, rs.t0, rs.t0)
            /\ pc' = "aborted"
            /\ err' = "runtime_error"
            /\ UNCHANGED rs
  /\ UNCHANGED <<cfg, evalRet, dimVars, fieldVars, vecVars, coefVars, BCs, initialised,
                 cellVars, bcVars, K_global, derivVars, cbVars>>

\* The solutions IDASolve may return in Y and dYdt: the last iterate it
\* evaluated, or the values the vectors have.
Solutions ==
  {<<Y, dYdt>>} \cup (IF call.name = "none" THEN {} ELSE {<<call.y, call.yp>>})

\* IDASolve returns within the loop: on failure runSolver prints and
\* throws, else the solution is in Y and dYdt, and runSolver prints every
\* stepsPerPrint steps and goes on
SolveReturn ==
  /\ pc = "solving"
  /\ RLe(R(rs.iout), rs.totalSteps)
  /\ \E ok \in BOOLEAN :
       IF ok
       THEN /\ \E sol \in Solutions :
                 /\ Y' = sol[1]
                 /\ dYdt' = sol[2]
                 /\ files' = IF rs.iout % rs.stepsPerPrint = 0
                             THEN Printed(files, sol[1], sol[2], rs.tout, rs.tout)
                             ELSE files
            /\ rs' = [rs EXCEPT !.iout = rs.iout + 1,
                                !.tout = RAdd(rs.tout, rs.delta_t)]
            /\ UNCHANGED <<pc, err, idVals>>
       ELSE /\ files' = Printed(files, Y, dYdt, rs.tout, rs.t0)
            /\ pc' = "aborted"
            /\ err' = "runtime_error"
            /\ UNCHANGED <<rs, vecVars>>
  /\ UNCHANGED <<cfg, evalRet, dimVars, fieldVars, coefVars, BCs, initialised,
                 cellVars, bcVars, K_global, derivVars, cbVars>>

\* The loop of runSolver ends and runSolver returns
Finish ==
  /\ pc = "solving"
  /\ ~RLe(R(rs.iout), rs.totalSteps)
  /\ pc' = "done"
  /\ UNCHANGED <<err, cfg, evalRet, dimVars, fieldVars, vecVars, solverVars>>

(***************************************************************************)
(* The runs of the program.                                                *)
(***************************************************************************)
BoundaryTypes == {"Dirichlet", "VonNeumann"}

\* Initial_condition, Diffusion_case and Reaction_case of a configuration.
PlainCase == <<"Const", "Linear", "None">>

NonlinearCase == <<"Ramp", "Nonlinear", "Linear">>

InverseCase == <<"Ramp", "Linear", "Inverse">>

\* A well-formed configuration: N channels on Nc cells of width 1 of degree
\* 0, boundary kinds lb and ub, provider cases pr, print interval dt and
\* final time tf.
Config(N, Nc, lb, ub, pr, dt, tf) ==
  [key \in Keys |->
     CASE key = "Polynomial_degree" -> IVal(0)
       [] key = "Grid_size" -> IVal(Nc)
       [] key = "Number_of_channels" -> IVal(N)
       [] key = "Initial_condition" -> SVal(pr[1])
       [] key = "Diffusion_case" -> SVal(pr[2])
       [] key = "Reaction_case" -> SVal(pr[3])
       [] key = "Lower_boundary" -> FVal(Zero)
       [] key = "Upper_boundary" -> FVal(R(Nc))
       [] key = "LB_Type" -> SVal(lb)
       [] key = "UB_Type" -> SVal(ub)
       [] key = "delta_t" -> FVal(dt)
       [] key = "t_final" -> FVal(tf)
       [] key = "Relative_tolerance" -> FVal(<<1, 1000>>)
       [] key = "Absolute_tolerance" -> FVal(<<1, 1000>>)]

WellFormedConfigs ==
  {Config(1, 1, lb, ub, PlainCase, One, One) : lb \in BoundaryTypes, ub \in BoundaryTypes}
    \cup {Config(1, 2, "VonNeumann", "VonNeumann", PlainCase, One, One),
          Config(1, 2, "Dirichlet", "VonNeumann", PlainCase, One, One),
          Config(2, 1, "VonNeumann", "VonNeumann", PlainCase, One, One),
          Config(2, 1, "Dirichlet", "Dirichlet", PlainCase, One, One),
          Config(3, 1, "VonNeumann", "VonNeumann", PlainCase, One, One),
          Config(1, 1, "VonNeumann", "VonNeumann", NonlinearCase, One, One),
          Config(1, 1, "VonNeumann", "VonNeumann", InverseCase, One, One),
          Config(1, 1, "VonNeumann", "VonNeumann", PlainCase, R(2), One)}

BaseConfig == Config(1, 1, "VonNeumann", "VonNeumann", PlainCase, One, One)

\* The values a configuration gives a key in place of a well-formed one.
BadValues ==
  {<<"Polynomial_degree", FVal(One)>>,
   <<"Grid_size", SVal("two")>>,
   <<"Initial_condition", IVal(1)>>,
   <<"Lower_boundary", IVal(0)>>,
   <<"Upper_boundary", SVal("one")>>,
   <<"LB_Type", SVal("Periodic")>>,
   <<"UB_Type", SVal("Robin")>>,
   <<"delta_t", FVal(R(-1))>>,
   <<"delta_t", IVal(1)>>,
   <<"t_final", FVal(R(-1))>>,
   <<"t_final", SVal("late")>>,
   <<"Relative_tolerance", IVal(1)>>}

\* The base configuration with one key left out, or with one bad value.
DefectiveConfigs ==
  {[BaseConfig EXCEPT ![key] = AbsentVal] : key \in Keys}
    \cup {[BaseConfig EXCEPT ![bv[1]] = bv[2]] : bv \in BadValues}

Init ==
  /\ pc = "main"
  /\ err = None
  /\ \/ /\ cfg \in WellFormedConfigs
        /\ tau = One /\ c_fn = Zero
     \/ /\ cfg \in {Config(1, 1, "VonNeumann", "VonNeumann", PlainCase, One, One),
                     Config(1, 2, "Dirichlet", "VonNeumann", PlainCase, One, One)}
        /\ tau = One /\ c_fn = One
     \/ /\ cfg \in DefectiveConfigs
        /\ tau = One /\ c_fn = Zero
  /\ k = 0 /\ nCells = 0 /\ nVar = 0 /\ grid = <<>>
  /\ sig = <<>> /\ q = <<>> /\ u = <<>>
  /\ lambda = None
  /\ Y = <<>> /\ dYdt = <<>> /\ idVals = <<>>
  /\ Unassembled
  /\ evalRet = NoEval

Next ==
  \/ Construct
  \/ ReadFile
  \/ InitialiseMatrices
  \/ SetInitialConditions
  \/ SetId
  \/ PrintInitial
  \/ Residual
  \/ LinearSolve
  \/ CalcICReturn
  \/ SolveReturn
  \/ Finish

Spec == Init /\ [][Next]_vars

(***************************************************************************)
(* The boundary specification: the runs of a solver whose caller installs  *)
(* boundary functions of their own before runSolver.                       *)
(***************************************************************************)
\* SystemSolver::setBoundaryConditions(BCs), with time-dependent g_D, g_N
SetBoundaryConditions ==
  /\ pc = "runSolver"
  /\ BCs.g = "zero"
  /\ BCs' = [BCs EXCEPT !.g = "ramp"]
  /\ UNCHANGED <<pc, err, cfg, evalRet, dimVars, fieldVars, vecVars, coefVars,
                 initialised, cellVars, bcVars, K_global, derivVars, cbVars, rs, files>>

BoundaryConfigs ==
  {Config(1, 1, lb, ub, PlainCase, One, One) : lb \in BoundaryTypes, ub \in BoundaryTypes}
    \cup {Config(1, 2, "Dirichlet", "VonNeumann", PlainCase, One, One),
          Config(2, 1, "Dirichlet", "VonNeumann", PlainCase, One, One)}

InitBC ==
  /\ pc = "main"
  /\ err = None
  /\ cfg \in BoundaryConfigs
  /\ tau = One /\ c_fn \in {Zero, One}
  /\ k = 0 /\ nCells = 0 /\ nVar = 0 /\ grid = <<>>
  /\ sig = <<>> /\ q = <<>> /\ u = <<>>
  /\ lambda = None
  /\ Y = <<>> /\ dYdt = <<>> /\ idVals = <<>>
  /\ Unassembled
  /\ evalRet = NoEval

NextBC ==
  \/ Construct
  \/ SetBoundaryConditions
  \/ ReadFile
  \/ InitialiseMatrices
  \/ SetInitialConditions
  \/ SetId
  \/ PrintInitial
  \/ Residual
  \/ LinearSolve
  \/ CalcICReturn
  \/ SolveReturn
  \/ Finish

SpecBC == InitBC /\ [][NextBC]_vars

(***************************************************************************)
(* Properties of the callbacks, of the configuration and of the output.    *)
(***************************************************************************)
\* The providers are polynomials of degree at most two in the state, so a
\* central difference of the residual is its directional derivative.
C3_PolynomialProviders == cfg["Reaction_case"].s \in {"None", "Linear"}

\* The residual at (y + s d, y' + s alpha d), (y, y') being the iterate
C3_ResidualAlong(d, s) ==
  ResidualVector(VecAdd(call.y, VecScale(s, d)),
                 VecAdd(call.yp, VecScale(RMul(s, alpha), d)), L_global, RF_cellwise)

\* (dF/dY + alpha dF/dY') d
C3_JacobianTimes(d) ==
  LET Fp == C3_ResidualAlong(d, One)
      Fm == C3_ResidualAlong(d, R(-1))
  IN After(<<Fp, Fm>>,
       [i \in 0..(StateLength - 1) |-> RDiv(RSub(Fp[i], Fm[i]), R(2))])

\* C3: the vector delY the linear solve returns for shift alpha and
\* right-hand side g satisfies (dF/dY + alpha dF/dY') delY = g, F being the
\* residual with its four blocks as residual computes them.
C3_JacobianIdentity ==
  (call.name = "solveJacEq" /\ C3_PolynomialProviders)
    => C3_JacobianTimes(delY) = call.g

\* C4: a call of residual changes nothing but resval: RF_cellwise,
\* L_global, total_steps, resNorm and the file system are after the call
\* as they were before it.
C4_ResidualPure ==
  [][Residual => UNCHANGED <<RF_cellwise, L_global, total_steps, resNorm, files>>]_vars

\* C5: residual returns 0 only when every entry of the residual it
\* computed is finite; a NaN or Inf of a provider gives a non-zero return.
C5_NonFiniteReported ==
  (total_steps > 0 /\ pc # "crashed" /\ resRet = 0) => AllFinite(resval)

\* The matrices of a linear solve with shift a have full rank.
C6_Regular(a) ==
  /\ \A i \in 0..(nCells - 1) :
       LuRank(MXOf(i, a, Y, dYdt), 3 * nVar * (k + 1)) = 3 * nVar * (k + 1)
  /\ LuRank(K_global, nVar * (nCells + 1)) = nVar * (nCells + 1)

\* C6: a linear solve whose cell matrix M(alpha) or whose K_global is
\* singular reports a failure: it completes and returns delY only when
\* these matrices are regular.
C6_SingularReported ==
  call.name = "solveJacEq" => C6_Regular(alpha)

\* C7: initialiseMatrices finishes with initialised = true, and residuals
\* and linear solves run, only when the H_global it assembled is regular.
C7_SingularHFatal ==
  (initialised \/ total_steps > 0)
    => LuRank(H_global, nVar * (nCells + 1)) = nVar * (nCells + 1)

\* A tolerance key is absent and every other key is valid.
C8_OnlyToleranceAbsent ==
  /\ \E key \in {"Relative_tolerance", "Absolute_tolerance"} : Count(key) = 0
  /\ \A key \in {"Relative_tolerance", "Absolute_tolerance"} :
       Count(key) = 0 \/ cfg[key].kind = "floating"
  /\ ConstructorError = None
  /\ RealKeyError("delta_t") = None
  /\ RealKeyError("t_final") = None

\* C8: with a tolerance key absent and the required keys valid, runSolver
\* does not abort on the configuration and uses 1e-5 for that tolerance.
C8_TolerancesOptional ==
  C8_OnlyToleranceAbsent =>
    /\ pc = "aborted" => err = "runtime_error"
    /\ pc \notin {"main", "runSolver", "aborted"} =>
         /\ Count("Relative_tolerance") = 0 => rs.rtol = <<1, 100000>>
         /\ Count("Absolute_tolerance") = 0 => rs.atol = <<1, 100000>>

\* The keys a configuration must have.
C9_RequiredKeys == Keys \ {"Relative_tolerance", "Absolute_tolerance"}

\* The configuration has a malformed value or lacks a required key.
C9_Malformed ==
  \/ \E key \in C9_RequiredKeys : Count(key) = 0
  \/ cfg["Polynomial_degree"].kind = "integer" /\ cfg["Polynomial_degree"].i < 0
  \/ cfg["Grid_size"].kind = "integer" /\ cfg["Grid_size"].i < 1
  \/ cfg["Number_of_channels"].kind = "integer" /\ cfg["Number_of_channels"].i < 1
  \/ /\ cfg["Lower_boundary"].kind = "floating"
     /\ cfg["Upper_boundary"].kind = "floating"
     /\ RLe(cfg["Upper_boundary"].r, cfg["Lower_boundary"].r)
  \/ \E key \in {"LB_Type", "UB_Type"} :
       cfg[key].kind = "string" /\ cfg[key].s \notin {"Dirichlet", "VonNeumann"}
  \/ \E key \in {"delta_t", "t_final"} :
       cfg[key].kind = "floating" /\ RLe(cfg[key].r, Zero)

\* C9: a configuration with a malformed value or without a required key
\* aborts before the integrator's first residual or linear solve.
C9_MalformedAborts ==
  C9_Malformed => (total_steps = 0 /\ call.name = "none")

\* The lines of one frame of n + 1 data lines begin at line b of file f.
C10_FrameAt(f, b, n) ==
  /\ f[b].kind = "header"
  /\ \A l \in 1..(n + 1) : f[b + l].kind = "data" /\ Len(f[b + l].cols) = 7
  /\ f[b + 1].cols[1] = BCs.LowerBound
  /\ f[b + n + 1].cols[1] = BCs.UpperBound
  /\ f[b + n + 2].kind = "blank"

\* C10: every frame print writes is a header line, nOut + 1 lines of
\* seven columns with x from the lower to the upper boundary inclusive,
\* and a blank line.
C10_FrameShape ==
  \A name \in DOMAIN files \cap {Out0, Out1} :
    /\ Len(files[name]) % (nOut + 3) = 0
    /\ \A fr \in 0..((Len(files[name]) \div (nOut + 3)) - 1) :
         C10_FrameAt(files[name], fr * (nOut + 3) + 1, nOut)

\* The plot file of channel v.
C11_ChannelFile(v) ==
  CASE v = 0 -> Out0
    [] v = 1 -> "u_t_1.plot"
    [] v = 2 -> "u_t_2.plot"
    [] v = 3 -> "u_t_3.plot"

\* The number of frames of a file.
C11_Frames(f) == Cardinality({l \in 1..Len(f) : f[l].kind = "header"})

\* C11: once runSolver has printed, every channel v < N has its plot file
\* (the file named after the configuration for channel 0, u_t_<v>.plot for
\* the others), and all channel files hold the same number of frames.
C11_FilePerChannel ==
  pc \in {"calcIC", "solving", "done", "aborted"} /\ nVar > 0 /\ DOMAIN files # {}
    => \A v \in 0..(nVar - 1) :
         /\ C11_ChannelFile(v) \in DOMAIN files
         /\ C11_Frames(files[C11_ChannelFile(v)]) = C11_Frames(files[Out0])
         /\ C11_Frames(files[Out0]) > 0


(***************************************************************************)
(* The evaluation specification: EvalCoeffs called on the fields of a      *)
(* solver of every size within the bounds, at points inside and outside    *)
(* the grid.                                                               *)
(***************************************************************************)
\* The width of a cell of the grids evaluated on.
EvalWidth == <<1, 4>>

\* The points EvalCoeffs is called at: from below the grid to above it.
EvalPoints == {Norm(n, 8) : n \in (0 - 2)..(2 * nCells + 2)}

\* The state vectors evaluated: every slot holds a value of its own.
EvalVectors ==
  {[i \in 0..(StateLength - 1) |-> R(i + 1)],
   [i \in 0..(StateLength - 1) |-> <<2 * i - 3, 1>>]}

EvalInit ==
  /\ pc = "evaluating"
  /\ err = None
  /\ cfg = None
  /\ nVar \in 1..MaxVar
  /\ nCells \in 1..MaxCells
  /\ k = 0
  /\ grid = GridCells(Zero, RMul(R(nCells), EvalWidth), nCells)
  /\ sig = SigViews("Y") /\ q = QViews("Y") /\ u = UViews("Y")
  /\ lambda = LamView("Y")
  /\ Y \in EvalVectors
  /\ dYdt = VecZero(StateLength)
  /\ idVals = <<>>
  /\ tau = None /\ c_fn = None
  /\ Unassembled
  /\ evalRet = NoEval

\* The coefficients of the field of the given name.
FieldCoeffs(field) ==
  CASE field = "u" -> u
    [] field = "q" -> q
    [] field = "sig" -> sig

\* EvalCoeffs(u.Basis, <field>.coeffs, x, var)
EvalCall ==
  /\ pc = "evaluating"
  /\ \E field \in {"u", "q", "sig"}, x \in EvalPoints, var \in 0..(nVar - 1) :
       evalRet' = [field |-> field, x |-> x, var |-> var,
                   value |-> EvalCoeffs(FieldCoeffs(field), x, var, Y, dYdt)]
  /\ UNCHANGED <<pc, err, cfg, dimVars, fieldVars, vecVars, solverVars>>

EvalNext == EvalCall

SpecEval == EvalInit /\ [][EvalNext]_vars

\* Where the coefficients of a field on cell i start in the state vector.
C12_Offset(field, var, i) ==
  CASE field = "u" -> UOffset(var, i)
    [] field = "q" -> QOffset(var, i)
    [] field = "sig" -> SigOffset(var, i)

\* The expansion of a field in the basis of cell i, at x.
C12_OnCell(field, var, i, x) ==
  SumTo([j \in 0..k |-> RMul(Y[C12_Offset(field, var, i) + j], Phi(Interval(i), j, x))], 0, k)

\* C12: EvalCoeffs returns NaN whenever x lies outside [a,b], in no grid
\* cell, and whenever x lies inside [a,b] it returns the evaluation of the
\* field in the basis of a cell that contains x.
C12_OutOfRangeNaN ==
  evalRet.field # "none" =>
    /\ RLt(evalRet.x, grid[1].x_l) \/ RGt(evalRet.x, grid[nCells].x_u)
         => evalRet.value = NaN
    /\ RLe(grid[1].x_l, evalRet.x) /\ RLe(evalRet.x, grid[nCells].x_u)
         => \E i \in 0..(nCells - 1) :
              /\ Contains(Interval(i), evalRet.x)
              /\ evalRet.value = C12_OnCell(evalRet.field, evalRet.var, i, evalRet.x)

\* An evaluation above the grid that returned NaN.
C12_Witness ==
  /\ evalRet.field = "u"
  /\ RGt(evalRet.x, grid[nCells].x_u)
  /\ evalRet.value = NaN

\* The views the members of the solver hold.
C13_MemberViews ==
  UNION {UNION {{f[v][i] : i \in DOMAIN f[v]} : v \in DOMAIN f} :
           f \in {sig, q, u, dsigdt, dqdt, dudt}}

\* C13: whenever no entrypoint of the solver is running (setInitialConditions,
\* residual or the linear solve has returned), the solver holds no view into
\* the integrator's vectors Y and Y': each entrypoint binds fresh views to
\* the vectors it is passed, and none is kept for a later call to read or
\* write through.
C13_NoRetainedViews ==
  \A w \in C13_MemberViews : w.buf \notin {"Y", "dYdt"}

\* The indices of the u slots of a vector.
C14_USlots ==
  UNION {ViewIndices(UViews("dYdt")[v][i]) : v \in 1..nVar, i \in 1..nCells}

\* The indices residual writes R2 to: the q slots.
C14_R2Slots ==
  UNION {ViewIndices(QViews("Y")[v][i]) : v \in 1..nVar, i \in 1..nCells}

\* The derivative vector that differs from yp in every slot of xs, by an
\* amount of the slot's own.
C14_Changed(yp, xs) ==
  [x \in DOMAIN yp |-> IF x \in xs THEN RAdd(yp[x], R(x + 2)) ELSE yp[x]]

\* C14: residual writes the same resval for derivative vectors that agree
\* on every u slot - the sigma, q and trace slots of Y' are never read - and
\* a change of the u slots of Y' changes no part of resval but R2.
C14_DerivativeOnlyU ==
  call.name = "residual" /\ resRet = 0 =>
    /\ \A xs \in {DOMAIN call.yp \ C14_USlots, {0}, {LamOffset}} :
         ResidualVector(call.y, C14_Changed(call.yp, xs), L_global, RF_cellwise) = resval
    /\ \E res \in {ResidualVector(call.y, C14_Changed(call.yp, C14_USlots),
                                  L_global, RF_cellwise)} :
         \A x \in DOMAIN resval \ C14_R2Slots : res[x] = resval[x]

\* A residual call on a derivative vector that is nonzero in its sigma, q
\* and trace slots.
C14_Witness ==
  /\ call.name = "residual"
  /\ resRet = 0
  /\ \A x \in DOMAIN call.yp \ C14_USlots : call.yp[x] = One
  /\ resval # VecZero(StateLength)

\* C15: in every residual(t, ...) call the boundary update for t is complete
\* before R1, R2 and R4 are computed: the RF and L the call leaves are those
\* of its own t, and resval is the residual for exactly these, never for the
\* values an earlier call at another time left.
C15_BoundaryFirst ==
  call.name = "residual" /\ resRet = 0 =>
    /\ L_global = LGlobal(call.t)
    /\ \E mz \in UpperLoopOutcomes :
         RF_cellwise = [i \in 1..nCells |-> CellRF(Interval(i - 1), call.t, mz.val)]
    /\ resval = ResidualVector(call.y, call.yp, LGlobal(call.t), RF_cellwise)

\* A residual call at a later time than the last boundary update before
\* it, with boundary data that changed in between.
C15_Witness ==
  /\ call.name = "residual"
  /\ resRet = 0
  /\ BCs.g = "ramp"
  /\ RGt(call.t, Zero)
  /\ total_steps = 2
  /\ L_global # LGlobal(Zero) \/ RF_cellwise # [i \in 1..nCells |-> CellRF(Interval(i - 1), Zero, Zero)]

\* The source provider's matrix dF/du on cell i.
C16_dFduMat(i, qv, uv) ==
  LET Wt(var) == MassMatrixW(Interval(i), DSourceDu(cfg["Reaction_case"].s, qv[var], uv[var]))
  IN BlockDiagOf(Wt)

\* The block form of the matrix of cell i for shift a, the provider
\* matrices evaluated at qv, uv.
C16_BlockForm(i, a, qv, uv) ==
  LET n == nVar * (k + 1)
      A == A_cellwise[i + 1]
      B == B_cellwise[i + 1]
      D == D_cellwise[i + 1]
      Xw(var) == MassMatrixW(Interval(i), a)
      aM == BlockDiagOf(Xw)
  IN [r \in 0..(3 * n - 1) |-> [c \in 0..(3 * n - 1) |->
       CASE r \div n = 0 /\ c \div n = 0 -> Zero
         [] r \div n = 0 /\ c \div n = 1 -> RNeg(A[r][c % n])
         [] r \div n = 0 /\ c \div n = 2 -> RNeg(B[c % n][r])
         [] r \div n = 1 /\ c \div n = 0 -> B[r % n][c]
         [] r \div n = 1 /\ c \div n = 1 ->
              RAdd(D[r % n][c % n], dFdqMat(i, qv, uv)[r % n][c % n])
         [] r \div n = 1 /\ c \div n = 2 ->
              RAdd(RAdd(D[r % n][c % n], C16_dFduMat(i, qv, uv)[r % n][c % n]),
                   aM[r % n][c % n])
         [] r \div n = 2 /\ c \div n = 0 -> A[r % n][c]
         [] r \div n = 2 /\ c \div n = 1 -> NLqMat(i, qv, uv)[r % n][c % n]
         [] r \div n = 2 /\ c \div n = 2 -> NLuMat(i, qv, uv)[r % n][c % n]]]

\* C16: the matrix updateMForJacSolve factorises for a cell and shift alpha
\* has the block form [0, -A, -B^T ; B, D + dF/dq, D + dF/du + alpha*M ;
\* A, NLq, NLu] over the sigma, q and u column blocks, dF/dq and dF/du each
\* appearing once, in its own column block.
C16_JacobianBlocks ==
  call.name = "solveJacEq" =>
    \A i \in 0..(nCells - 1) :
      MXOf(i, alpha, Y, dYdt)
        = C16_BlockForm(i, alpha,
                        [var \in 0..(nVar - 1) |-> FieldValue(q, var, i, Y, dYdt)],
                        [var \in 0..(nVar - 1) |-> FieldValue(u, var, i, Y, dYdt)])

\* The matrix of cell i for shift a with NLq, NLu, dF/dq and dF/du evaluated
\* at the q and u of the state vector y.
C17_MatrixAt(i, a, y) ==
  LET n == nVar * (k + 1)
      tempQ == QViews("Y")
      tempU == UViews("Y")
      Xw(var) == MassMatrixW(Interval(i), a)
      qv == [var \in 0..(nVar - 1) |-> FieldValue(tempQ, var, i, y, y)]
      uv == [var \in 0..(nVar - 1) |-> FieldValue(tempU, var, i, y, y)]
  IN [r \in 0..(3 * n - 1) |-> [c \in 0..(3 * n - 1) |->
       CASE r \div n = 1 /\ c \div n = 2 ->
              RAdd(MBlocks[i + 1][r][c], BlockDiagOf(Xw)[r % n][c % n])
         [] r \div n = 2 /\ c \div n = 1 -> NLqMat(i, qv, uv)[r % n][c % n]
         [] r \div n = 2 /\ c \div n = 2 -> NLuMat(i, qv, uv)[r % n][c % n]
         [] r \div n = 1 /\ c \div n = 1 ->
              RAdd(RAdd(MBlocks[i + 1][r][c], dFdqMat(i, qv, uv)[r % n][c % n]),
                   dFdqMat(i, qv, uv)[r % n][c % n])
         [] OTHER -> MBlocks[i + 1][r][c]]]

\* C17: in every linear solve the blocks NLq, NLu, dF/dq, dF/du are those of
\* the integrator's current iterate, the q and u of the Y last passed to
\* residual, also when that Y is another vector than the one given to
\* setInitialConditions: the condensed matrix the solve leaves is the one
\* built from the cell matrices at that iterate.
C17_CurrentIterate ==
  call.name = "solveJacEq" =>
    K_global = KGlobal([i \in 0..(nCells - 1) |->
                         SQU0(i, C17_MatrixAt(i, alpha, call.y))])

\* The matrix of cell i the linear solve with shift a factorises.
C18_M(i, a) == MXOf(i, a, Y, dYdt)

\* dl_cell(i): for each variable the pair of trace values at the faces of
\* cell i.
C18_dlCell(dl, i) ==
  [x \in 0..(2 * nVar - 1) |-> dl[(x \div 2) * (nCells + 1) + i + (x % 2)]]

\* g4 - sum_i CG_i M_i^-1 g_i
C18_F(g, a) ==
  TraceRhs(g, [i \in 0..(nCells - 1) |-> SQUf(i, C18_M(i, a), g)])

\* Every matrix of the solve is invertible.
C18_Invertible(a, K) ==
  /\ LuRank(K, LamLength) = LamLength
  /\ \A i \in 0..(nCells - 1) :
       LuRank(C18_M(i, a), 3 * nVar * (k + 1)) = 3 * nVar * (k + 1)

\* dY holds the solution for right-hand side g, shift a and condensed matrix K.
C18_Holds(g, a, K, dY) ==
  LET n3 == 3 * nVar * (k + 1)
      dl == Seg(dY, LamOffset, LamLength)
  IN /\ MatVec(K, dl, LamLength, LamLength) = C18_F(g, a)
     /\ \A i \in 0..(nCells - 1) :
          /\ Seg(dY, i * n3, n3)
               = VecSub(SQUf(i, C18_M(i, a), g),
                        MatVec(SQU0(i, C18_M(i, a)), C18_dlCell(dl, i), n3, 2 * nVar))
          /\ MatVec(C18_M(i, a), Seg(dY, i * n3, n3), n3, n3)
               = VecSub(Seg(g, i * n3, n3),
                        MatVec(CEBlocks[i + 1], C18_dlCell(dl, i), n3, 2 * nVar))

\* C18: after solveJacEq(g, deltaY) the trace slots of deltaY hold the
\* solution dl of K_global dl = g4 - sum_i CG_i M_i^-1 g_i, and the sigma, q
\* and u slots of every cell i hold M_i^-1 g_i - M_i^-1 CE_i dl_cell(i),
\* whatever deltaY held before the call.
C18_CondensedSolve ==
  [][call.name = "residual" /\ call'.name = "solveJacEq"
       => C18_Holds(call'.g, alpha', K_global', delY')]_vars

\* The same for the solves whose cell matrices and condensed matrix are all
\* invertible.
C18_WhenInvertible ==
  [][call.name = "residual" /\ call'.name = "solveJacEq"
       /\ C18_Invertible(alpha', K_global')
       => C18_Holds(call'.g, alpha', K_global', delY')]_vars

\* Face e (0 lower, 1 upper) of cell i is a Dirichlet boundary of the domain.
C19_DirichletFace(i, e) ==
  \/ e = 0 /\ i = 0 /\ BCs.isLBoundDirichlet
  \/ e = 1 /\ i = nCells - 1 /\ BCs.isUBoundDirichlet

\* The face position and the sign of the normal there.
C19_X(i, e) == IF e = 0 THEN Interval(i).x_l ELSE Interval(i).x_u

C19_Normal(e) == IF e = 0 THEN R(0 - 1) ELSE One

C20_UpdateTime == IF call.name = "none" THEN Zero ELSE call.t

\* The sigma-row entry of RF for basis function j on cell i at time t: the
\* contributions -phi_j(x_b) n_x g_D(x_b, t) of the Dirichlet boundaries the
\* cell touches.
C20_SigmaEntry(i, j, t) ==
  RAdd(IF i = 0 /\ BCs.isLBoundDirichlet
       THEN RMul(RMul(RNeg(Phi(Interval(i), j, Interval(i).x_l)), R(0 - 1)),
                 g_D(Interval(i).x_l, t))
       ELSE Zero,
       IF i = nCells - 1 /\ BCs.isUBoundDirichlet
       THEN RMul(RMul(RNeg(Phi(Interval(i), j, Interval(i).x_u)), One),
                 g_D(Interval(i).x_u, t))
       ELSE Zero)

\* The sigma-row half of RF holds the boundary contributions.
C20_SigmaRowsHold ==
  initialised =>
    \A i \in 0..(nCells - 1), v \in 0..(nVar - 1), j \in 0..k :
      RF_cellwise[i + 1][v * (k + 1) + j] = C20_SigmaEntry(i, j, C20_UpdateTime)

\* C20: for every k >= 0 the boundary update (initialiseMatrices at t = 0,
\* updateBoundaryConditions(t) after) completes, and after it the sigma-row
\* entry v(k+1)+j of RF of a cell is -phi_j(x_b) n_x g_D(x_b, t) summed over
\* the Dirichlet boundaries x_b the cell touches, with basis index j at the
\* lower and at the upper boundary alike, and zero in a cell that touches
\* none.
C20_SigmaRows ==
  /\ pc # "crashed"
  /\ C20_SigmaRowsHold

\* (C_i sigma_i + G_i u_i) of variable v on cell i, at its face e, for the
\* state vector y.
C21_CsGu(y, v, i, e) ==
  RAdd(SumTo([j \in 0..k |-> RMul(C_cellwise[i + 1][2 * v + e][v * (k + 1) + j],
                                  y[SigOffset(v, i) + j])], 0, k),
       SumTo([j \in 0..k |-> RMul(G_cellwise[i + 1][2 * v + e][v * (k + 1) + j],
                                  y[UOffset(v, i) + j])], 0, k))

\* b at the trace index of variable v and face j: L there, once, minus the
\* contributions of the cells adjacent to the face.
C21_b(y, v, j) ==
  RSub(RSub(L_global[v * (nCells + 1) + j],
            IF j >= 1 THEN C21_CsGu(y, v, j - 1, 1) ELSE Zero),
       IF j <= nCells - 1 THEN C21_CsGu(y, v, j, 0) ELSE Zero)

\* C21: the trace block residual writes is -lambda + H_global^-1 b, b being,
\* at the trace index v(Nc+1)+j, L counted once minus (C_i sigma_i + G_i u_i)
\* of variable v summed over the cells adjacent to face j, one at a boundary
\* face and two at an interior face.
C21_TraceBlock ==
  call.name = "residual" /\ resRet = 0 =>
    Seg(resval, LamOffset, LamLength)
      = VecAdd(VecNeg(Seg(call.y, LamOffset, LamLength)),
               LuSolveVec(H_global,
                          [x \in 0..(LamLength - 1) |->
                             C21_b(call.y, x \div (nCells + 1), x % (nCells + 1))],
                          LamLength))

\* A residual call on a two-cell grid with a nonzero L and a nonzero state.
C21_Witness ==
  /\ call.name = "residual"
  /\ resRet = 0
  /\ nCells = 2
  /\ L_global # VecZero(LamLength)
  /\ call.y # VecZero(StateLength)
  /\ Seg(resval, LamOffset, LamLength) # VecZero(LamLength)

\* The indices of the u slots of the derivative vector.
C22_USlots ==
  UNION {ViewIndices(UViews("dYdt")[v][i]) : v \in 1..nVar, i \in 1..nCells}

\* Contents the derivative vector may have held before the call.
C22_Before ==
  {[x \in 0..(StateLength - 1) |-> R(5)], [x \in 0..(StateLength - 1) |-> R(x + 1)]}

\* C22: after setInitialConditions returns, every sigma, q and trace slot of
\* Y' is exactly zero and only u slots may be nonzero, whatever Y' held
\* before the call.
C22_AlgebraicDerivativesZero ==
  pc \in {"setid", "print", "calcIC"} =>
    /\ \A x \in DOMAIN dYdt \ C22_USlots : dYdt[x] = Zero
    /\ \A before \in C22_Before :
         InitialDudt(sig, q, u, dudt, Y,
                     ResetCoeffs(dsigdt, dqdt, dudt, dlamdt, before)) = dYdt

\* Initial conditions whose derivative vector is nonzero in a u slot.
C22_Witness ==
  /\ pc = "setid"
  /\ \E x \in C22_USlots : dYdt[x] # Zero
  /\ \A x \in DOMAIN dYdt \ C22_USlots : dYdt[x] = Zero

\* The indices residual writes R2 to: the q slots.
C23_R2Slots ==
  UNION {ViewIndices(QViews("Y")[v][i]) : v \in 1..nVar, i \in 1..nCells}

\* resval of residual at t = 0 on the current Y and Y', val being what the
\* boundary update's upper loop yields.
C23_ResidualAtZero(val) ==
  LET CellRFt(I) == CellRF(I, Zero, val)
  IN ResidualVector(Y, dYdt, LGlobal(Zero), Cellwise(CellRFt))

\* C23: the du/dt of setInitialConditions solves R2 = 0: residual at t = 0 on
\* the Y and Y' it leaves gives a zero R2 for every cell and variable,
\* whatever the source provider.
C23_ExplicitDudt ==
  pc = "setid" =>
    \A mz \in UpperLoopOutcomes :
      ~mz.trap => \A x \in C23_R2Slots : C23_ResidualAtZero(mz.val)[x] = Zero

\* C24: the trace values of setInitialConditions satisfy the trace
\* equation: residual at t = 0 on the Y it leaves gives R4 = 0 at every
\* trace index, both as computed on the state after the call and in the
\* residual calls the integrator makes on that Y before the first step.
C24_InitialTraceBalanced ==
  /\ pc = "setid" =>
       \A mz \in UpperLoopOutcomes :
         ~mz.trap =>
           Seg(C23_ResidualAtZero(mz.val), LamOffset, LamLength) = VecZero(LamLength)
  /\ (call.name = "residual" /\ pc = "calcIC" /\ resRet = 0
        /\ call.t = Zero /\ call.y = Y) =>
       Seg(resval, LamOffset, LamLength) = VecZero(LamLength)

\* A residual call at t = 0 on the initial state of a two-cell grid whose
\* trace values and boundary data L are not zero.
C24_Witness ==
  /\ call.name = "residual"
  /\ pc = "calcIC"
  /\ resRet = 0
  /\ call.t = Zero
  /\ call.y = Y
  /\ nCells = 2
  /\ Seg(Y, LamOffset, LamLength) # VecZero(LamLength)
  /\ L_global # VecZero(LamLength)
  /\ Seg(resval, LamOffset, LamLength) = VecZero(LamLength)

\* The condensed matrix assembled from a zero matrix for shift a0 and state
\* vector y: entry (a, b) is the sum, over the cells i and variables v whose
\* 2x2 block at v(Nc+1)+i covers (a, b), of the entry of
\* H_i - CG_i M_i^-1 CE_i, M_i being built from the stored base block of the
\* cell, the shift a0 and the q and u of y.
C25_K(a0, y) ==
  LET n3 == 3 * nVar * (k + 1)
      Schur(i) ==
        MatSub(H_cellwise[i + 1],
               MatMul(CG_cellwise[i + 1],
                      LuSolve(C17_MatrixAt(i, a0, y), CEBlocks[i + 1], n3, 2 * nVar),
                      2 * nVar, n3, 2 * nVar))
      Part(kc, v, i, a, b) ==
        IF a - (v * (nCells + 1) + i) \in {0, 1} /\ b - (v * (nCells + 1) + i) \in {0, 1}
        THEN kc[i][2 * v + a - (v * (nCells + 1) + i)][2 * v + b - (v * (nCells + 1) + i)]
        ELSE Zero
      Sum(kc) ==
        Force([a \in 0..(LamLength - 1) |-> [b \in 0..(LamLength - 1) |->
          SumTo([s \in 0..(nVar * nCells - 1) |-> Part(kc, s % nVar, s \div nVar, a, b)],
                0, nVar * nCells - 1)]])
  IN Sum(Force([i \in 0..(nCells - 1) |-> Schur(i)]))

PrintTimings ==
  {<<One, One>>, <<One, R(2)>>, <<One, <<3, 2>>>>, <<<<1, 2>>, One>>,
   <<R(2), R(3)>>, <<R(2), One>>, <<One, <<1, 2>>>>}

TimingConfigs ==
  {Config(1, 1, "VonNeumann", "VonNeumann", PlainCase, dt[1], dt[2]) : dt \in PrintTimings}

InitTiming ==
  /\ pc = "main"
  /\ err = None
  /\ cfg \in TimingConfigs
  /\ tau = One /\ c_fn = Zero
  /\ k = 0 /\ nCells = 0 /\ nVar = 0 /\ grid = <<>>
  /\ sig = <<>> /\ q = <<>> /\ u = <<>>
  /\ lambda = None
  /\ Y = <<>> /\ dYdt = <<>> /\ idVals = <<>>
  /\ Unassembled
  /\ evalRet = NoEval

SpecTiming == InitTiming /\ [][Next]_vars

\* The times in the headers of the frames written to the plot file.
C26_FrameTimes ==
  {files[Out0][l].t : l \in {x \in DOMAIN files[Out0] : files[Out0][x].kind = "header"}}

\* The number of frames written to the plot file.
C26_FrameCount ==
  Cardinality({x \in DOMAIN files[Out0] : files[Out0][x].kind = "header"})

\* 0 and the positive multiples of delta_t up to t_final, or 0 and t_final
\* when t_final is below delta_t.
C26_PrintTimes ==
  LET dt == cfg["delta_t"].r
      tf == cfg["t_final"].r
  IN IF RLt(tf, dt) THEN {Zero, tf}
     ELSE {Zero} \cup {RMul(R(n), dt) : n \in 1..Floor(RDiv(tf, dt))}

C27_BlockDiagonal(M, r, c) ==
  \A i \in 0..(nVar * r - 1), j \in 0..(nVar * c - 1) :
    i \div r # j \div c => M[i][j] = Zero

\* K_cell of cell i for the shift and the state of the last linear solve.
C27_KCell(i) == KCell(i, SQU0(i, MXOf(i, alpha, Y, dYdt)))

\* The blocks every cell holds after initialiseMatrices are block-diagonal
\* over the variables.
C27_AssembledBlocks ==
  \A i \in 1..nCells :
    /\ C27_BlockDiagonal(A_cellwise[i], k + 1, k + 1)
    /\ C27_BlockDiagonal(B_cellwise[i], k + 1, k + 1)
    /\ C27_BlockDiagonal(C_cellwise[i], 2, k + 1)
    /\ C27_BlockDiagonal(D_cellwise[i], k + 1, k + 1)
    /\ C27_BlockDiagonal(E_cellwise[i], k + 1, 2)
    /\ C27_BlockDiagonal(G_cellwise[i], 2, k + 1)
    /\ C27_BlockDiagonal(H_cellwise[i], 2, 2)

\* C27: with providers that do not couple the variables, the per-cell
\* blocks A, B, C, D, E, G, H are block-diagonal over the variables, and so
\* is K_cell = H - CG M^-1 CE in every linear solve, so that the
\* per-variable 2x2 blocks gathered into K_global leave out no nonzero
\* entry of a K_cell.
C27_BlockDiagonalOverVariables ==
  /\ initialised => C27_AssembledBlocks
  /\ call.name = "solveJacEq" =>
       \A i \in 0..(nCells - 1) : C27_BlockDiagonal(C27_KCell(i), 2, 2)

(***************************************************************************)
(* Runs in which the matrices are assembled more than once.                *)
(***************************************************************************)
ReassemblyConfigs ==
  {Config(1, 1, "VonNeumann", "VonNeumann", PlainCase, One, One),
   Config(1, 2, "Dirichlet", "VonNeumann", PlainCase, One, One),
   Config(2, 1, "VonNeumann", "VonNeumann", PlainCase, One, One)}

InitReassembly ==
  /\ pc = "main"
  /\ err = None
  /\ cfg \in ReassemblyConfigs
  /\ tau = One /\ c_fn \in {Zero, One}
  /\ k = 0 /\ nCells = 0 /\ nVar = 0 /\ grid = <<>>
  /\ sig = <<>> /\ q = <<>> /\ u = <<>>
  /\ lambda = None
  /\ Y = <<>> /\ dYdt = <<>> /\ idVals = <<>>
  /\ Unassembled
  /\ evalRet = NoEval

NextReassembly ==
  \/ Construct
  \/ ReadFile
  \/ InitialiseMatrices
  \/ InitialiseMatricesAgain
  \/ SetInitialConditions
  \/ SetId
  \/ PrintInitial
  \/ Residual
  \/ LinearSolve
  \/ CalcICReturn
  \/ SolveReturn
  \/ Finish

SpecReassembly == InitReassembly /\ [][NextReassembly]_vars

\* The per-cell containers of the solver.
C28_Containers ==
  <<A_cellwise, B_cellwise, C_cellwise, D_cellwise, E_cellwise, G_cellwise, H_cellwise,
    CG_cellwise, RF_cellwise, XMats, MBlocks, CEBlocks>>

\* C28: after any number of calls of initialiseMatrices every per-cell
\* container has exactly nCells entries, and entry i of each is the block of
\* cell i from the most recent assembly: D_cellwise[i] is the D block inside
\* MBlocks[i], and CEBlocks[i] stacks the transpose of C_cellwise[i] over
\* E_cellwise[i].
C28_OneEntryPerCell ==
  initialised =>
    /\ \A c \in 1..Len(C28_Containers) : Len(C28_Containers[c]) = nCells
    /\ \A i \in 1..nCells :
         /\ D_cellwise[i]
              = Block(MBlocks[i], nVar * (k + 1), 2 * nVar * (k + 1),
                      nVar * (k + 1), nVar * (k + 1))
         /\ CEBlocks[i] = CellCE(C_cellwise[i], E_cellwise[i])

\* C29: the H_global of initialiseMatrices is diagonal; for every variable v
\* its diagonal entry at v(Nc+1) is zero when the lower boundary is
\* Dirichlet and the one at v(Nc+1)+Nc is zero when the upper boundary is
\* Dirichlet, so that with a Dirichlet boundary the matrix has a zero row
\* and column and its factorisation is rank-deficient.
C29_DiagonalSingular ==
  initialised =>
    /\ \A a, b \in 0..(LamLength - 1) : a # b => H_global[a][b] = Zero
    /\ \A v \in 0..(nVar - 1) :
         /\ BCs.isLBoundDirichlet =>
              /\ H_global[v * (nCells + 1)][v * (nCells + 1)] = Zero
              /\ \A x \in 0..(LamLength - 1) :
                   /\ H_global[v * (nCells + 1)][x] = Zero
                   /\ H_global[x][v * (nCells + 1)] = Zero
         /\ BCs.isUBoundDirichlet =>
              /\ H_global[v * (nCells + 1) + nCells][v * (nCells + 1) + nCells] = Zero
              /\ \A x \in 0..(LamLength - 1) :
                   /\ H_global[v * (nCells + 1) + nCells][x] = Zero
                   /\ H_global[x][v * (nCells + 1) + nCells] = Zero
    /\ (BCs.isLBoundDirichlet \/ BCs.isUBoundDirichlet) =>
         LuRank(H_global, LamLength) < LamLength

\* An assembled two-cell grid with a Dirichlet lower boundary whose
\* H_global is nonzero at the other faces and rank-deficient.
C29_Witness ==
  /\ initialised
  /\ nCells = 2
  /\ BCs.isLBoundDirichlet
  /\ H_global[0][0] = Zero
  /\ H_global[1][1] # Zero
  /\ H_global[2][2] # Zero
  /\ LuRank(H_global, LamLength) = LamLength - 1

=============================================================================
